---- MODULE Spec2Model ----
(***************************************************************************)
(* State-machine model of the GitHub platform adapter (src/unnamed/       *)
(* part_001): the per-repository session `config`, its caches, and the    *)
(* operations initRepo, getRepoForceRebase, getIssueList, ensureIssue,     *)
(* ensureComment, ensureCommentRemoval, getPrList, findPr, getPr,          *)
(* getOpenPrs, getClosedPrs, updatePr, getBranchPr, mergePr,               *)
(* getBranchStatus and setBranchStatus, against an abstract remote (the    *)
(* GitHub API); of prefetchDockerImage and resetPrefetchedImages           *)
(* (src/lib/util/exec/docker/index.ts); of extractPackageFile of the       *)
(* setup.cfg manager (src/unnamed/part_000); and of updateArtifacts of     *)
(* the cargo manager, whose behaviour is taken from its description.       *)
(*                                                                         *)
(* The remote is modelled by what its REST/GraphQL endpoints return; each  *)
(* request may succeed or fail with one of the status codes the code tells *)
(* apart.  A read through githubApi returns the remote's current state.    *)
(* A handler is one action where its callers run it to the end before      *)
(* the next call; getOpenPrs/getClosedPrs (SpecQuery) and                  *)
(* prefetchDockerImage (SpecDocker) are split at their await, so that      *)
(* several calls are in flight at the same time.                           *)
(*                                                                         *)
(* One specification per component (SpecMerge, SpecStatus, SpecIssue,      *)
(* SpecComment, SpecRemoval, SpecBranchPr, SpecFindPr, SpecPrCache,       *)
(* SpecGetPr, SpecOpenPrs, SpecSetStatus, SpecInit, SpecSession,           *)
(* SpecRebase, SpecQuery, SpecDocker, SpecCargo, SpecExtract); the         *)
(* variables of the other components are held at their idle value.         *)
(***************************************************************************)
EXTENDS Integers, Sequences, FiniteSets, TLC

VARIABLES
  \* ---- session (`config`, part_001:76, set by initRepo) ----
  repository,        \* config.repository
  parentRepo,        \* config.parentRepo (Null unless fork mode)
  forkMode,          \* config.forkMode
  forkToken,         \* config.forkToken (Undefined when none was given)
  mergeMethod,       \* config.mergeMethod ("undefined" when none detected)
  existingRepos,     \* the module's existingRepos (part_001:196): [fetched, hasFork]
  initLast,          \* the last initRepo call: request, response, outcome
  repoForceRebase,   \* config.repoForceRebase ("undefined" | TRUE | FALSE as strings)
  prReviewsRequired, \* config.prReviewsRequired
  pushProtection,    \* config.pushProtection
  bpRequests,        \* number of branch-protection requests issued this session
  rbLast,            \* the last getRepoForceRebase call: response and outcome
  \* ---- mergePr: the last call ----
  mergePc,           \* "idle" | "detected" | "guess": where the call stands
  mergeGuess,        \* index in GuessOrder of the next guessed method (0: none)
  mergeReviews,      \* the reviews response the call read
  mergeLog,          \* the merge (PUT) requests the call issued, in order
  mergeResult,       \* "none" | "true" | "false" | "raised"
  \* ---- getBranchStatus: the last call ----
  stPc,              \* "idle" | "checkRuns"
  stInput,           \* [state, nStatuses, runs] the remote answered with
  stResult,          \* "none" | "green" | "yellow" | "red" | "raised"
  remoteStatuses,    \* remote: the statuses of the branch commit, newest first
  sbLast,            \* the last setBranchStatus call: arguments, requests, outcome
  \* ---- issues ----
  hasIssuesEnabled,  \* config.hasIssuesEnabled
  remoteIssues,      \* the remote's issues, in the order the issues query lists them
  issueList,         \* config.issueList: [cached, items]; not cached is null/deleted
  issueLast,         \* the last ensureIssue call: its arguments, requests, result
  \* ---- pull requests ----
  remotePrs,         \* the remote's pull requests; a PR's number is its index
  remoteComments,    \* remoteComments[n]: the comments on issue/PR n, in list order
  prList,            \* config.prList: [cached, items]
  openPrList,        \* config.openPrList: [cached, items]
  closedPrList,      \* config.closedPrList: [cached, items]
  branchPrs,         \* config.branchPrs: branch -> PR record (NoPr: no entry)
  brLast,            \* the last getBranchPr call: arguments, requests, result
  cmLast,            \* the last ensureComment call: arguments, requests, result
  prLast,            \* the last getPrList, findPr, getPr or updatePr call
  \* ---- package-manager tooling (outside the adapter) ----
  cargoLast,         \* the last updateArtifacts call of the Cargo updater
  exLast,            \* the last extractPackageFile call: content and result
  prefetchedImages,  \* docker/index.ts:17, the set of images already fetched
  pulls,             \* the 'docker pull' commands run since the last reset
  dkPc,              \* prefetchDockerImage callers: where each call stands
  \* ---- getOpenPrs / getClosedPrs calls that interleave at their await ----
  qPc,               \* per caller: "idle", or the query ("open", "closed") it awaits
  queries,           \* per list: the queries issued since the last invalidation
  qLast              \* the last getOpenPrs/getClosedPrs call that returned

sessionVars == <<repository, parentRepo, forkMode, forkToken, mergeMethod,
                 existingRepos, initLast>>
protVars    == <<repoForceRebase, prReviewsRequired, pushProtection, bpRequests,
                 rbLast>>
mergeVars   == <<mergePc, mergeGuess, mergeReviews, mergeLog, mergeResult>>
statusVars  == <<stPc, stInput, stResult, remoteStatuses, sbLast>>
issueVars   == <<hasIssuesEnabled, remoteIssues, issueList, issueLast>>
prVars      == <<remotePrs, remoteComments, prList, openPrList, closedPrList,
                 branchPrs, brLast, cmLast, prLast>>
toolVars    == <<cargoLast, exLast, prefetchedImages, pulls, dkPc, qPc, queries, qLast>>
vars == <<sessionVars, protVars, mergeVars, statusVars, issueVars, prVars, toolVars>>

Null == "null"
Undefined == "undefined"

\* ------------------------------------------------------------------------
\* Bounds
\* ------------------------------------------------------------------------
MaxReviews == 2      \* reviews in one reviews response
MaxCheckRuns == 2    \* check-runs in one check-runs response
MaxStatuses == 1     \* legacy statuses in one combined status
MaxIssues == 2       \* issues on the remote
MaxPrs == 2          \* pull requests on the remote
MaxComments == 2     \* comments on one issue or pull request
MaxChecks == 2       \* statuses of the branch commit
MaxDeps == 2         \* updatedDeps handed to updateArtifacts
MaxCallers == 2      \* calls of one function in flight at the same time
MaxLines == 3        \* lines of a setup.cfg handed to extractPackageFile

\* All sequences over S of length at most n.
SeqUpTo(S, n) == UNION {[1..k -> S] : k \in 0..n}

\* str.startsWith(prefix)
StartsWith(str, prefix) ==
  /\ Len(str) >= Len(prefix)
  /\ SubSeq(str, 1, Len(prefix)) = prefix

\* ------------------------------------------------------------------------
\* Session
\* ------------------------------------------------------------------------
RepoName == "owner/repo"     \* the repository initRepo was asked for
ForkName == "bot/repo"       \* the fork's full_name
ForkToken == "fork-token"    \* the forkToken initRepo is given in fork mode

MergeMethods == {"rebase", "squash", "merge"}

\* a detection that prefers squash to rebase
DetectSquashFirst(rebaseAllowed, squashAllowed, mergeAllowed) ==
  IF squashAllowed THEN "squash"
  ELSE IF rebaseAllowed THEN "rebase"
  ELSE IF mergeAllowed THEN "merge"
  ELSE Undefined

\* initRepo's merge-method priority (rebase > squash > merge > none).
DetectMergeMethod(rebaseAllowed, squashAllowed, mergeAllowed) ==
  IF rebaseAllowed THEN "rebase"
  ELSE IF squashAllowed THEN "squash"
  ELSE IF mergeAllowed THEN "merge"
  ELSE Undefined

\* ---- what the repository metadata query of initRepo answers ----
\* error messages are sequences of words
REPOSITORY_ARCHIVED == <<"archived">>
REPOSITORY_RENAMED == <<"renamed">>
REPOSITORY_NOT_FOUND == <<"not-found">>
REPOSITORY_EMPTY == <<"empty">>
REPOSITORY_ACCESS_FORBIDDEN == <<"forbidden">>
REPOSITORY_BLOCKED == <<"blocked">>
REPOSITORY_FORKED == <<"fork">>
REPOSITORY_DISABLED == <<"disabled">>
REPOSITORY_CANNOT_FORK == <<"cannot-fork">>
AccessBlockedPrefix == <<"Repository", "access", "blocked">>
Message451 == <<"Response", "code", "451", "(Unavailable for Legal Reasons)">>

\* repositories that pass every test of initRepo
GoodRepos ==
  [present : {TRUE}, defaultBranch : {TRUE}, nameWithOwner : {RepoName},
   isArchived : {FALSE}, rebaseMergeAllowed : BOOLEAN, squashMergeAllowed : BOOLEAN,
   mergeCommitAllowed : BOOLEAN, hasIssuesEnabled : BOOLEAN]

\* no repository in the answer, or one without default branch, renamed,
\* archived, in every combination; and one whose canonical name is not given
OtherRepos ==
  ([present : BOOLEAN, defaultBranch : BOOLEAN,
    nameWithOwner : {RepoName, "owner/renamed", Null},
    isArchived : BOOLEAN, rebaseMergeAllowed : {TRUE}, squashMergeAllowed : {FALSE},
    mergeCommitAllowed : {FALSE}, hasIssuesEnabled : {TRUE}]
   \ GoodRepos)
  \ {r \in [present : {FALSE}, defaultBranch : BOOLEAN,
             nameWithOwner : {RepoName, "owner/renamed", Null},
             isArchived : BOOLEAN, rebaseMergeAllowed : {TRUE},
             squashMergeAllowed : {FALSE}, mergeCommitAllowed : {FALSE},
             hasIssuesEnabled : {TRUE}] :
        r.defaultBranch \/ r.isArchived \/ r.nameWithOwner # RepoName}

NoRepo ==
  [present |-> FALSE, defaultBranch |-> FALSE, nameWithOwner |-> RepoName,
   isArchived |-> FALSE, rebaseMergeAllowed |-> TRUE, squashMergeAllowed |-> FALSE,
   mergeCommitAllowed |-> FALSE, hasIssuesEnabled |-> TRUE]

\* failures of the query: HTTP errors (statusCode, message) and others
MetaErrors ==
  {[statusCode |-> 403, message |-> <<"Response", "code", "403", "(Forbidden)">>],
   [statusCode |-> 403, message |-> AccessBlockedPrefix \o <<"by", "admin">>],
   [statusCode |-> 404, message |-> <<"Response", "code", "404", "(Not Found)">>],
   [statusCode |-> 0, message |-> AccessBlockedPrefix \o <<"by", "admin">>],
   [statusCode |-> 451, message |-> Message451],
   [statusCode |-> 500, message |-> <<"Response", "code", "500">>],
   [statusCode |-> 0, message |-> REPOSITORY_FORKED],
   [statusCode |-> 0, message |-> REPOSITORY_DISABLED],
   [statusCode |-> 0, message |-> <<"timeout">>]}

NoError == [statusCode |-> 0, message |-> <<>>]

MetaResponses ==
  {[ok |-> TRUE, repo |-> r, error |-> NoError] : r \in GoodRepos \cup OtherRepos}
  \cup {[ok |-> FALSE, repo |-> NoRepo, error |-> e] : e \in MetaErrors}

\* what the try block of initRepo throws, NoError if nothing
MetaThrown(meta) ==
  IF ~meta.ok THEN meta.error
  ELSE IF ~meta.repo.present THEN [statusCode |-> 0, message |-> REPOSITORY_NOT_FOUND]
  ELSE IF ~meta.repo.defaultBranch THEN [statusCode |-> 0, message |-> REPOSITORY_EMPTY]
  ELSE IF meta.repo.nameWithOwner # Null /\ meta.repo.nameWithOwner # RepoName
  THEN [statusCode |-> 0, message |-> REPOSITORY_RENAMED]
  ELSE IF meta.repo.isArchived THEN [statusCode |-> 0, message |-> REPOSITORY_ARCHIVED]
  ELSE NoError

\* a catch block that passes every error on as it is
MetaRethrown(err) == err

\* what the catch block of initRepo throws for the error it caught
MetaCaught(err) ==
  IF err.message \in {REPOSITORY_ARCHIVED, REPOSITORY_RENAMED, REPOSITORY_NOT_FOUND}
  THEN err
  ELSE IF err.statusCode = 403
  THEN [statusCode |-> 0, message |-> REPOSITORY_ACCESS_FORBIDDEN]
  ELSE IF err.statusCode = 404
  THEN [statusCode |-> 0, message |-> REPOSITORY_NOT_FOUND]
  ELSE IF StartsWith(err.message, AccessBlockedPrefix)
  THEN [statusCode |-> 0, message |-> REPOSITORY_BLOCKED]
  ELSE IF err.message = REPOSITORY_FORKED THEN err
  ELSE IF err.message = REPOSITORY_DISABLED THEN err
  ELSE IF err.message = Message451
  THEN [statusCode |-> 0, message |-> REPOSITORY_ACCESS_FORBIDDEN]
  ELSE err

\* the RepoResult of initRepo; NoResult when it raised
NoResult == [defaultBranch |-> Null]
RepoResult == [defaultBranch |-> "main"]

\* repository and parentRepo are those of the config when the call ended,
\* listing is existingRepos when it began, listed the answer to the listing,
\* failed the request of the fork flow that the remote failed
NoInitCall ==
  [called |-> FALSE, repository |-> Null, parentRepo |-> Null,
   listing |-> [fetched |-> FALSE, hasFork |-> FALSE], listed |-> FALSE,
   failed |-> "none",
   forkMode |-> FALSE,
   meta |-> [ok |-> FALSE, repo |-> NoRepo, error |-> NoError],
   reqs |-> <<>>, raised |-> FALSE, error |-> NoError, result |-> NoResult,
   hadCaches |-> FALSE]

\* The session as initRepo leaves it: in fork mode config.parentRepo is the
\* requested repository and config.repository the fork.
SessionInit ==
  /\ forkMode \in BOOLEAN
  /\ forkToken = IF forkMode THEN ForkToken ELSE Undefined
  /\ repository = IF forkMode THEN ForkName ELSE RepoName
  /\ parentRepo = IF forkMode THEN RepoName ELSE Null
  /\ existingRepos = [fetched |-> forkMode, hasFork |-> forkMode]
  /\ initLast = NoInitCall

\* The same, fork mode with and without a token of its own (initRepo falls
\* back on the main token: forkToken || opts.token).
SessionTokenInit ==
  /\ forkMode \in BOOLEAN
  /\ forkToken \in (IF forkMode THEN {ForkToken, Undefined} ELSE {Undefined})
  /\ repository = IF forkMode THEN ForkName ELSE RepoName
  /\ parentRepo = IF forkMode THEN RepoName ELSE Null
  /\ existingRepos = [fetched |-> forkMode, hasFork |-> forkMode]
  /\ initLast = NoInitCall

\* a session that was not asked for fork mode
SessionNoFork ==
  /\ forkMode = FALSE
  /\ forkToken = Undefined
  /\ repository = RepoName
  /\ parentRepo = Null
  /\ existingRepos = [fetched |-> FALSE, hasFork |-> FALSE]
  /\ initLast = NoInitCall

\* the tooling outside the adapter, before any call
NoCargoCall ==
  [called |-> FALSE, args |-> Null, lockFile |-> <<>>, steps |-> <<>>,
   result |-> [isNull |-> TRUE, list |-> <<>>], raised |-> FALSE]

\* what extractPackageFile returns: null, or {deps}
NullPackageFile == [isNull |-> TRUE, deps |-> <<>>]
NoExtractCall == [called |-> FALSE, content |-> <<>>, result |-> NullPackageFile]

NoQueries ==
  [open |-> [count |-> 0, outcome |-> "none"],
   closed |-> [count |-> 0, outcome |-> "none"]]

NoQueryCall ==
  [called |-> FALSE, caller |-> 0, kind |-> "none", queried |-> FALSE,
   outcome |-> "none", items |-> <<>>]

QueryIdle ==
  /\ qPc = <<>>
  /\ queries = NoQueries
  /\ qLast = NoQueryCall

ToolIdle ==
  /\ cargoLast = NoCargoCall
  /\ exLast = NoExtractCall
  /\ prefetchedImages = {}
  /\ pulls = <<>>
  /\ dkPc = <<>>
  /\ QueryIdle

\* the merge method initRepo derives from the repository's three flags
MethodInit == \E r, s, m \in BOOLEAN : mergeMethod = DetectMergeMethod(r, s, m)

\* a repository whose allowed merge methods could not be read
MethodIdle == mergeMethod = Undefined

\* `config.parentRepo || config.repository`
Target == IF parentRepo # Null THEN parentRepo ELSE repository

\* the derived flags are undefined in a fresh config (initRepo replaces config)
NoRebaseCall ==
  [called |-> FALSE, first |-> FALSE, requested |-> FALSE, code |-> 0,
   strict |-> FALSE, result |-> "none", raised |-> FALSE, sawRaise |-> FALSE]

ProtInit ==
  /\ repoForceRebase = Undefined
  /\ prReviewsRequired = FALSE
  /\ pushProtection = FALSE
  /\ bpRequests = 0
  /\ rbLast = NoRebaseCall

\* ------------------------------------------------------------------------
\* getRepoForceRebase / getBranchProtection
\* ------------------------------------------------------------------------
\* A branch-protection response: the body, or the failure.
Protections ==
  [ok : {TRUE}, code : {200},
   required_pull_request_reviews : BOOLEAN,
   required_status_checks : {"absent", "lax", "strict"},
   restrictions : BOOLEAN]

ProtectionFailures ==
  [ok : {FALSE}, code : {404, 403, 401, 500},
   required_pull_request_reviews : {FALSE},
   required_status_checks : {"absent"},
   restrictions : {FALSE}]

\* a catch that lets only the 404 pass
ProtectionToleratedOnly404(code) == code = 404

\* 401 stands for an error whose message is PLATFORM_INTEGRATION_UNAUTHORIZED
ProtectionTolerated(code) == code \in {404, 403, 401}

\* a flag that is set only once the response is there
FlagAfterFailureUnset(old) == old

\* config.repoForceRebase when the request has failed: it was set to false
\* before the request was awaited
FlagAfterFailure(old) == "false"

\* getBranchProtection in fork mode answers {} without a request
EmptyProtection ==
  [ok |-> TRUE, code |-> 200, required_pull_request_reviews |-> FALSE,
   required_status_checks |-> "absent", restrictions |-> FALSE]

\* getRepoForceRebase() against a branch-protection answer drawn from
\* `responses`
GetRepoForceRebaseOn(responses) ==
  /\ mergePc = "idle"
  /\ IF repoForceRebase # Undefined
     THEN /\ rbLast' = [NoRebaseCall EXCEPT
                           !.called = TRUE, !.result = repoForceRebase,
                           !.sawRaise = rbLast.raised \/ rbLast.sawRaise]
          /\ UNCHANGED <<repoForceRebase, prReviewsRequired, pushProtection,
                         bpRequests>>
     ELSE \E resp \in responses :
            LET bp == IF parentRepo # Null THEN EmptyProtection ELSE resp
                raised == ~bp.ok /\ ~ProtectionTolerated(bp.code)
            IN
            \* in fork mode no answer is read: one stands for all
            /\ parentRepo # Null => resp = CHOOSE r \in responses : TRUE
            /\ bpRequests' = IF parentRepo # Null THEN bpRequests ELSE bpRequests + 1
            /\ IF bp.ok
               THEN /\ prReviewsRequired' = bp.required_pull_request_reviews
                    /\ repoForceRebase' =
                         IF bp.required_status_checks = "strict" THEN "true" ELSE "false"
                    /\ pushProtection' = bp.restrictions
               ELSE /\ repoForceRebase' = FlagAfterFailure(repoForceRebase)
                    /\ UNCHANGED <<prReviewsRequired, pushProtection>>
            /\ rbLast' = [called |-> TRUE, first |-> TRUE,
                          requested |-> parentRepo = Null, code |-> bp.code,
                          strict |-> bp.required_status_checks = "strict",
                          result |-> IF raised THEN "raised" ELSE repoForceRebase',
                          raised |-> raised, sawRaise |-> FALSE]
  /\ UNCHANGED <<toolVars, sessionVars, mergeVars, statusVars, issueVars, prVars>>

GetRepoForceRebase == GetRepoForceRebaseOn(Protections \cup ProtectionFailures)

\* within a session of several operations: a strict protection, or none
SessionProtections ==
  {[EmptyProtection EXCEPT !.required_status_checks = "strict"],
   [EmptyProtection EXCEPT !.ok = FALSE, !.code = 404]}

GetRepoForceRebaseSession == GetRepoForceRebaseOn(SessionProtections)

\* ------------------------------------------------------------------------
\* mergePr
\* ------------------------------------------------------------------------
\* statusCode of a merge PUT: 200 is success; 500 stands for every failure
\* that is neither 404 nor 405
MergeCodes == {200, 404, 405, 500}

ReviewStates == {"APPROVED", "CHANGES_REQUESTED", "COMMENTED"}

\* what GET pulls/:n/reviews answers: a list of review states, or a failure
ReviewResponses ==
  [fetched : {TRUE}, ok : {TRUE}, body : SeqUpTo(ReviewStates, MaxReviews)] \cup
  [fetched : {TRUE}, ok : {FALSE}, body : {<<>>}]

\* no reviews request was made
NoReviews == [fetched |-> FALSE, ok |-> TRUE, body |-> <<>>]

\* a gate that takes any review for an approval
IsApprovedAnyReview(reviews) == Len(reviews) > 0

\* reviews.body.some((review) => review.state === 'APPROVED')
IsApproved(reviews) == \E i \in 1..Len(reviews) : reviews[i] = "APPROVED"

\* every failure of the detected method falls through to the guessing sequence
IsBlockedMergeAnyError(code) == code # 200

\* err.statusCode === 404 || err.statusCode === 405
IsBlockedMerge(code) == code = 404 \/ code = 405

\* the order the comment above the guessing sequence gives: squash first
GuessOrderSquashFirst == <<"squash", "rebase", "merge">>

\* the methods of the guessing sequence, in the order the code sets them
GuessOrder == <<"rebase", "squash", "merge">>

MergeReq(method, code) == [method |-> method, code |-> code]

\* The next PUT of the guessing sequence: its i-th method, answered with
\* `code`.  Success ends the call with true; a failure (of any kind) moves on
\* to the next method, and after the last one the call ends with false.
GuessStep(i, code) ==
  [req  |-> MergeReq(GuessOrder[i], code),
   pc   |-> IF code # 200 /\ i < Len(GuessOrder) THEN "guess" ELSE "idle",
   next |-> IF code # 200 /\ i < Len(GuessOrder) THEN i + 1 ELSE 0,
   result |-> IF code = 200 THEN "true"
              ELSE IF i < Len(GuessOrder) THEN "none" ELSE "false"]

\* The PUT with the detected method, answered with `code`.
DetectedStep(method, code) ==
  [req  |-> MergeReq(method, code),
   pc   |-> IF code # 200 /\ IsBlockedMerge(code) THEN "guess" ELSE "idle",
   next |-> IF code # 200 /\ IsBlockedMerge(code) THEN 1 ELSE 0,
   result |-> IF code = 200 THEN "true"
              ELSE IF IsBlockedMerge(code) THEN "none" ELSE "false"]

\* The review gate: "raised" when the reviews cannot be read, "false" when
\* none approves, "pass" otherwise.
ReviewGate(reviewsRequired, resp) ==
  IF ~reviewsRequired THEN "pass"
  ELSE IF ~resp.ok THEN "raised"
  ELSE IF ~IsApproved(resp.body) THEN "false"
  ELSE "pass"

MergeInit ==
  /\ mergePc = "idle"
  /\ mergeGuess = 0
  /\ mergeReviews = NoReviews
  /\ mergeLog = <<>>
  /\ mergeResult = "none"

\* mergePr up to its first PUT: the review gate
MergePrBegin ==
  /\ mergePc = "idle"
  /\ \E resp \in ReviewResponses :
       LET gate == ReviewGate(prReviewsRequired, resp) IN
       /\ mergeReviews' = IF prReviewsRequired THEN resp ELSE NoReviews
       /\ mergeLog' = <<>>
       /\ mergeResult' = IF gate = "pass" THEN "none" ELSE gate
       /\ mergePc' = IF gate # "pass" THEN "idle"
                     ELSE IF mergeMethod # Undefined THEN "detected" ELSE "guess"
       /\ mergeGuess' = IF gate = "pass" /\ mergeMethod = Undefined THEN 1 ELSE 0
  /\ UNCHANGED <<toolVars, sessionVars, protVars, statusVars, issueVars, prVars>>

\* the PUT with config.mergeMethod
MergePrDetected ==
  /\ mergePc = "detected"
  /\ \E code \in MergeCodes :
       LET st == DetectedStep(mergeMethod, code) IN
       /\ mergeLog' = Append(mergeLog, st.req)
       /\ mergePc' = st.pc
       /\ mergeGuess' = st.next
       /\ mergeResult' = st.result
  /\ UNCHANGED <<toolVars, mergeReviews, sessionVars, protVars, statusVars, issueVars, prVars>>

\* one PUT of the guessing sequence
MergePrGuess ==
  /\ mergePc = "guess"
  /\ \E code \in MergeCodes :
       LET st == GuessStep(mergeGuess, code) IN
       /\ mergeLog' = Append(mergeLog, st.req)
       /\ mergePc' = st.pc
       /\ mergeGuess' = st.next
       /\ mergeResult' = st.result
  /\ UNCHANGED <<toolVars, mergeReviews, sessionVars, protVars, statusVars, issueVars, prVars>>

\* ------------------------------------------------------------------------
\* getBranchStatus
\* ------------------------------------------------------------------------
LegacyStates == {"success", "failure", "pending", "error"}
Conclusions == {"success", "failure", "neutral", "skipped", "cancelled"}

NoStatusInput == [state |-> "pending", nStatuses |-> 0, runs |-> <<>>]

\* checkRuns.some((run) => run.conclusion === 'failure')
SomeRunFailed(runs) == \E i \in 1..Len(runs) : runs[i] = "failure"

\* ['skipped', 'neutral', 'success'].includes(run.conclusion)
PassingConclusion(c) == c \in {"skipped", "neutral", "success"}

EveryRunPassed(runs) == \A i \in 1..Len(runs) : PassingConclusion(runs[i])

\* an aggregation that never looks at the number of legacy statuses
BranchStatusIgnoringCount(state, nStatuses, runs) ==
  IF Len(runs) = 0
  THEN IF state = "success" THEN "green"
       ELSE IF state = "failure" THEN "red"
       ELSE "yellow"
  ELSE IF state = "failure" \/ SomeRunFailed(runs) THEN "red"
  ELSE IF state = "success" /\ EveryRunPassed(runs) THEN "green"
  ELSE "yellow"

\* the aggregation at the end of getBranchStatus
BranchStatusOf(state, nStatuses, runs) ==
  IF Len(runs) = 0
  THEN IF state = "success" THEN "green"
       ELSE IF state = "failure" THEN "red"
       ELSE "yellow"
  ELSE IF state = "failure" \/ SomeRunFailed(runs) THEN "red"
  ELSE IF (state = "success" \/ nStatuses = 0) /\ EveryRunPassed(runs) THEN "green"
  ELSE "yellow"

\* ---- getBranchStatusCheck, setBranchStatus ----
Contexts == {"c1", "c2"}
\* the states of a commit status as the remote reports them; "queued" stands
\* for every state githubToRenovateStatusMapping does not list
CheckStates == {"success", "error", "failure", "pending", "queued"}
RemoteStatus == [context : Contexts, state : CheckStates]
BranchStatuses == {"green", "yellow", "red"}
REPOSITORY_CHANGED == "repository-changed"

\* a mapping that lists 'failure' but not 'error'
StatusMappingWithoutError(state) ==
  IF state = "success" THEN "green"
  ELSE IF state = "failure" THEN "red"
  ELSE "yellow"

\* githubToRenovateStatusMapping[check.state] || BranchStatus.yellow
StatusMapping(state) ==
  IF state = "success" THEN "green"
  ELSE IF state \in {"error", "failure"} THEN "red"
  ELSE "yellow"

\* renovateToGitHubStateMapping[state]
GitHubState(state) ==
  IF state = "green" THEN "success"
  ELSE IF state = "yellow" THEN "pending"
  ELSE "failure"

\* the loop of getBranchStatusCheck: the first status of the context, or null
RECURSIVE FirstCheck(_, _)
FirstCheck(res, context) ==
  IF res = <<>> THEN Null
  ELSE IF Head(res).context = context THEN StatusMapping(Head(res).state)
  ELSE FirstCheck(Tail(res), context)

\* which request of setBranchStatus fails, and how: the read of the statuses
\* with a 404 or another code, the POST, or one of the two refreshing reads
SetStatusFailures == {"none", "read404", "read500", "post", "status", "check"}

StatusReq(op, ok) == [op |-> op, repo |-> repository, ok |-> ok]

\* `before` is what the remote held when the call began
NoSetStatusCall ==
  [called |-> FALSE, context |-> "c1", state |-> "green", before |-> <<>>,
   reqs |-> <<>>, existing |-> Null, raised |-> FALSE, error |-> "none"]

SetStatusEnd(reqs, remote, existing, error) ==
  [reqs |-> reqs, remote |-> remote, existing |-> existing,
   raised |-> error # "none", error |-> error]

\* what getBranchStatusCheck throws when its read fails
ReadError(f) == IF f = "read404" THEN REPOSITORY_CHANGED ELSE "Response code 500"

\* setBranchStatus({branchName, context, state}) with failure f
SetBranchStatusCall(context, state, f) ==
  IF parentRepo # Null THEN SetStatusEnd(<<>>, remoteStatuses, Null, "none")
  ELSE IF f \in {"read404", "read500"}
  THEN SetStatusEnd(<<StatusReq("statuses", FALSE)>>, remoteStatuses, Null,
                    ReadError(f))
  ELSE LET existing == FirstCheck(remoteStatuses, context)
           read == <<StatusReq("statuses", TRUE)>>
           posted == <<[context |-> context, state |-> GitHubState(state)]>>
                       \o remoteStatuses
       IN
       IF existing = state
       THEN SetStatusEnd(read, remoteStatuses, existing, "none")
       ELSE IF f = "post"
       THEN SetStatusEnd(read \o <<StatusReq("post", FALSE)>>, remoteStatuses,
                         existing, REPOSITORY_CHANGED)
       ELSE IF f = "status"
       THEN SetStatusEnd(read \o <<StatusReq("post", TRUE), StatusReq("status", FALSE)>>,
                         posted, existing, REPOSITORY_CHANGED)
       ELSE SetStatusEnd(read \o <<StatusReq("post", TRUE), StatusReq("status", TRUE),
                                   StatusReq("statuses", f # "check")>>,
                         posted, existing,
                         IF f = "check" THEN REPOSITORY_CHANGED ELSE "none")

StatusInit ==
  /\ stPc = "idle"
  /\ stInput = NoStatusInput
  /\ stResult = "none"
  /\ remoteStatuses = <<>>
  /\ sbLast = NoSetStatusCall

\* a branch commit with some statuses already
SetStatusInit ==
  /\ stPc = "idle"
  /\ stInput = NoStatusInput
  /\ stResult = "none"
  /\ remoteStatuses \in SeqUpTo(RemoteStatus, MaxChecks - 1)
  /\ sbLast = NoSetStatusCall

SetBranchStatus ==
  /\ stPc = "idle"
  /\ \E context \in Contexts, state \in BranchStatuses, f \in SetStatusFailures :
     \E c \in {SetBranchStatusCall(context, state, f)} :
       /\ Len(c.remote) <= MaxChecks
       \* f names a request the call issued
       /\ f = "none" \/ (c.raised /\ ~c.reqs[Len(c.reqs)].ok)
       /\ remoteStatuses' = c.remote
       /\ sbLast' = [called |-> TRUE, context |-> context, state |-> state,
                     before |-> remoteStatuses, reqs |-> c.reqs, existing |-> c.existing,
                     raised |-> c.raised, error |-> c.error]
  /\ UNCHANGED <<toolVars, stPc, stInput, stResult, sessionVars, protVars, mergeVars,
                 issueVars, prVars>>

\* getStatus: the combined status is read, or the read fails and the call
\* raises (REPOSITORY_CHANGED on a 404, the error itself otherwise)
GetBranchStatusBegin ==
  /\ stPc = "idle"
  /\ \E state \in LegacyStates, n \in 0..MaxStatuses, ok \in BOOLEAN :
       IF ok
       THEN /\ stInput' = [state |-> state, nStatuses |-> n, runs |-> <<>>]
            /\ stResult' = "none"
            /\ stPc' = "checkRuns"
       ELSE /\ stInput' = NoStatusInput
            /\ stResult' = "raised"
            /\ stPc' = "idle"
  /\ UNCHANGED <<toolVars, remoteStatuses, sbLast, sessionVars, protVars, mergeVars,
                 issueVars, prVars>>

\* the check-runs read (a failed one is logged and leaves checkRuns empty),
\* then the aggregation
GetBranchStatusRuns ==
  /\ stPc = "checkRuns"
  /\ \E got \in SeqUpTo(Conclusions, MaxCheckRuns), ok \in BOOLEAN :
       LET runs == IF ok THEN got ELSE <<>> IN
       /\ stInput' = [stInput EXCEPT !.runs = runs]
       /\ stResult' = BranchStatusOf(stInput.state, stInput.nStatuses, runs)
       /\ stPc' = "idle"
  /\ UNCHANGED <<toolVars, remoteStatuses, sbLast, sessionVars, protVars, mergeVars,
                 issueVars, prVars>>

\* ------------------------------------------------------------------------
\* Issues: getIssueList, closeIssue, ensureIssue
\* ------------------------------------------------------------------------
IssueTitles == {"T", "R"}
IssueBodies == {"b1", "b2"}      \* bodies without secrets: sanitize leaves them as they are
IssueStates == {"open", "closed"}

\* a remote issue; its number is its place in remoteIssues (creation order)
RemoteIssue == [title : IssueTitles, state : IssueStates, body : IssueBodies]

\* getIssues: the list view holds number, title and lower-cased state, no body
GetIssues(remote) ==
  [k \in 1..Len(remote) |-> [number |-> k, title |-> remote[k].title,
                              state |-> remote[k].state]]

\* the arguments of ensureIssue: the desired title is "T" and the desired
\* body "b1" (labels are only copied into the request body)
IssueArgs ==
  [title : {"T"}, reuseTitle : {Null, "R"}, body : {"b1"},
   once : BOOLEAN, shouldReOpen : BOOLEAN]

\* which request of the call the remote fails, if any
IssueFailures == {"none", "list", "close", "get", "patch", "create"}

\* config.issueList when it is null or deleted
NoIssueList == [cached |-> FALSE, items |-> <<>>]

IssueReq(op, number, ok) == [op |-> op, repo |-> Target, number |-> number, ok |-> ok]

NoIssueCall ==
  [called |-> FALSE,
   args |-> [title |-> "T", reuseTitle |-> Null, body |-> "b1",
             once |-> FALSE, shouldReOpen |-> TRUE],
   seen |-> <<>>, reqs |-> <<>>, result |-> Null, failed |-> FALSE]

\* the remote after closeIssue on every issue of `dups` (list-view records)
CloseAll(remote, dups) ==
  [k \in 1..Len(remote) |->
     IF \E d \in 1..Len(dups) : dups[d].number = k
     THEN [remote[k] EXCEPT !.state = "closed"]
     ELSE remote[k]]

\* the issue ensureIssue works on: the first open match, else the last match
PickIssue(issues) ==
  LET opens == SelectSeq(issues, LAMBDA i : i.state = "open")
  IN IF Len(opens) > 0 THEN opens[1] ELSE issues[Len(issues)]

\* issue.title === title && issueBody === body && issue.state === 'open'
IssueUpToDate(issue, issueBody, a) ==
  issue.title = a.title /\ issueBody = a.body /\ issue.state = "open"

\* what a call leaves behind: the requests it issued, the remote, the
\* cached list, its return value, and whether a request failed
IssueEnd(reqs, remote, list, result, failed) ==
  [reqs |-> reqs, remote |-> remote, list |-> list, result |-> result, failed |-> failed]

\* a create that reports 'created' whatever the remote answers
CreateIssueAlwaysCreated(a, f, reqs, remote, cache) ==
  IF f = "create"
  THEN IssueEnd(reqs \o <<IssueReq("create", 0, FALSE)>>, remote, cache, "created", TRUE)
  ELSE IssueEnd(reqs \o <<IssueReq("create", 0, TRUE)>>,
                Append(remote, [title |-> a.title, state |-> "open", body |-> a.body]),
                NoIssueList, "created", FALSE)

\* the create request at the end of ensureIssue; after it the cached list is
\* deleted
CreateIssue(a, f, reqs, remote, cache) ==
  IF f = "create"
  THEN IssueEnd(reqs \o <<IssueReq("create", 0, FALSE)>>, remote, cache, Null, TRUE)
  ELSE IssueEnd(reqs \o <<IssueReq("create", 0, TRUE)>>,
                Append(remote, [title |-> a.title, state |-> "open", body |-> a.body]),
                NoIssueList, "created", FALSE)

\* from the body read on: up to date, patch, or create
ReconcileIssue(a, f, reqs, remote, cache, issue) ==
  IF f = "get"
  THEN IssueEnd(reqs \o <<IssueReq("get", issue.number, FALSE)>>, remote, cache, Null, TRUE)
  ELSE IF IssueUpToDate(issue, remote[issue.number].body, a)
  THEN IssueEnd(reqs \o <<IssueReq("get", issue.number, TRUE)>>, remote, cache, Null, FALSE)
  ELSE IF a.shouldReOpen
  THEN IF f = "patch"
       THEN IssueEnd(reqs \o <<IssueReq("get", issue.number, TRUE),
                               IssueReq("patch", issue.number, FALSE)>>,
                     remote, cache, Null, TRUE)
       ELSE IssueEnd(reqs \o <<IssueReq("get", issue.number, TRUE),
                               IssueReq("patch", issue.number, TRUE)>>,
                     [remote EXCEPT ![issue.number] =
                        [title |-> a.title, state |-> "open", body |-> a.body]],
                     cache, "updated", FALSE)
  ELSE CreateIssue(a, f, reqs \o <<IssueReq("get", issue.number, TRUE)>>, remote, cache)

\* the duplicates of `issue` among the matches are closed, one request each
CloseDuplicates(a, f, reqs, cache, issue, dups) ==
  IF Len(dups) > 0 /\ f = "close"
  THEN IssueEnd(reqs \o <<IssueReq("close", dups[1].number, FALSE)>>,
                remoteIssues, cache, Null, TRUE)
  ELSE ReconcileIssue(a, f,
                      reqs \o [k \in 1..Len(dups) |-> IssueReq("close", dups[k].number, TRUE)],
                      CloseAll(remoteIssues, dups), cache, issue)

\* an ensureIssue that does not look at `once`
EnsureIssueOnIgnoringOnce(a, f, reqs, cache, issues) ==
  IF Len(issues) = 0 THEN CreateIssue(a, f, reqs, remoteIssues, cache)
  ELSE CloseDuplicates(a, f, reqs, cache, PickIssue(issues),
         SelectSeq(issues, LAMBDA i : i.state = "open"
                                      /\ i.number # PickIssue(issues).number))

\* with the matches at hand: none creates; only closed ones and `once` does
\* nothing; otherwise one of them is picked
EnsureIssueOn(a, f, reqs, cache, issues) ==
  IF Len(issues) = 0 THEN CreateIssue(a, f, reqs, remoteIssues, cache)
  ELSE IF (\A k \in 1..Len(issues) : issues[k].state # "open") /\ a.once
  THEN IssueEnd(reqs, remoteIssues, cache, Null, FALSE)
  ELSE CloseDuplicates(a, f, reqs, cache, PickIssue(issues),
         SelectSeq(issues, LAMBDA i : i.state = "open"
                                      /\ i.number # PickIssue(issues).number))

\* the matches: by title, else by reuseTitle
MatchingIssues(a, list) ==
  IF \E k \in 1..Len(list) : list[k].title = a.title
  THEN SelectSeq(list, LAMBDA i : i.title = a.title)
  ELSE SelectSeq(list, LAMBDA i : i.title = a.reuseTitle)

\* One ensureIssue call with arguments a, the remote failing the first
\* request of kind f.
EnsureIssueCall(a, f) ==
  IF ~hasIssuesEnabled THEN IssueEnd(<<>>, remoteIssues, issueList, Null, FALSE)
  ELSE IF issueList.cached
  THEN EnsureIssueOn(a, f, <<>>, issueList, MatchingIssues(a, issueList.items))
  ELSE IF f = "list"
  THEN IssueEnd(<<IssueReq("list", 0, FALSE)>>, remoteIssues, issueList, Null, TRUE)
  ELSE EnsureIssueOn(a, f, <<IssueReq("list", 0, TRUE)>>,
                     [cached |-> TRUE, items |-> GetIssues(remoteIssues)],
                     MatchingIssues(a, GetIssues(remoteIssues)))

\* getIssueList(): the cached list, fetched when there is none
GetIssueListOn(cache, remote) ==
  IF ~hasIssuesEnabled THEN <<>>
  ELSE IF cache.cached THEN cache.items
  ELSE GetIssues(remote)

IssueInit ==
  /\ hasIssuesEnabled \in BOOLEAN
  /\ remoteIssues \in SeqUpTo(RemoteIssue, MaxIssues)
  /\ issueList = NoIssueList
  /\ issueLast = NoIssueCall

IssueIdle ==
  /\ hasIssuesEnabled = TRUE
  /\ remoteIssues = <<>>
  /\ issueList = NoIssueList
  /\ issueLast = NoIssueCall

EnsureIssue ==
  /\ \E a \in IssueArgs, f \in IssueFailures :
     \E c \in {EnsureIssueCall(a, f)} :
       /\ Len(c.remote) <= MaxIssues
       /\ f = "none" \/ c.failed      \* f names a request the call issued
       /\ remoteIssues' = c.remote
       /\ issueList' = c.list
       \* seen: the list getIssueList handed to the call, if it did
       /\ issueLast' = [called |-> TRUE, args |-> a,
                        seen |-> IF c.reqs # <<>> /\ c.reqs[1].op = "list" /\ ~c.reqs[1].ok
                                 THEN <<>>
                                 ELSE GetIssueListOn(issueList, remoteIssues),
                        reqs |-> c.reqs,
                        result |-> c.result, failed |-> c.failed]
  /\ UNCHANGED <<toolVars, hasIssuesEnabled, sessionVars, protVars, mergeVars, statusVars, prVars>>

\* somebody else closes or reopens an issue on the remote
OtherTogglesIssue ==
  /\ \E k \in 1..Len(remoteIssues) :
       remoteIssues' = [remoteIssues EXCEPT ![k].state =
                          IF @ = "open" THEN "closed" ELSE "open"]
  /\ issueLast' = NoIssueCall
  /\ UNCHANGED <<toolVars, hasIssuesEnabled, issueList,
                 sessionVars, protVars, mergeVars, statusVars, prVars>>

\* ------------------------------------------------------------------------
\* Pull requests: getPrList, findPr, getOpenPrs, getClosedPrs, getPr, getBranchPr
\* ------------------------------------------------------------------------
\* Strings that the code takes apart are sequences of words.
AutoclosedSuffix == <<"-", "autoclosed">>          \* ' - autoclosed'
PlainTitle == <<"Update", "dep">>

\* title.endsWith(suffix)
EndsWith(str, suffix) ==
  /\ Len(str) >= Len(suffix)
  /\ SubSeq(str, Len(str) - Len(suffix) + 1, Len(str)) = suffix

\* a reopen that keeps the title as it is
KeepTitle(title) == title

\* title.replace(/ - autoclosed$/, '')
StripAutoclosed(title) ==
  IF EndsWith(title, AutoclosedSuffix)
  THEN SubSeq(title, 1, Len(title) - Len(AutoclosedSuffix))
  ELSE title

Branches == {"b1", "b2"}
BotName == "renovate-bot"            \* config.renovateUsername
ClosedAt == 1000000000               \* closed_at of the closed PRs, in ms
ShaOf(number) == <<"sha", number>>   \* head.sha of PR `number`

\* The bot's own PR on branch b1: its state and title vary.
OwnPrs ==
  [branch : {"b1"}, author : {BotName}, sourceRepo : {RepoName},
   state : {"open"}, merged : {FALSE}, closedAt : {0}, title : {PlainTitle},
   mergeState : {"CLEAN"}, negativeReviews : {0}]
  \cup
  [branch : {"b1"}, author : {BotName}, sourceRepo : {RepoName},
   state : {"closed"}, merged : {FALSE}, closedAt : {ClosedAt},
   title : {PlainTitle, PlainTitle \o AutoclosedSuffix,
            PlainTitle \o AutoclosedSuffix \o AutoclosedSuffix},
   mergeState : {"CLEAN"}, negativeReviews : {0}]
  \cup
  [branch : {"b1"}, author : {BotName}, sourceRepo : {RepoName},
   state : {"closed"}, merged : {TRUE}, closedAt : {ClosedAt},
   title : {PlainTitle \o AutoclosedSuffix},
   mergeState : {"CLEAN"}, negativeReviews : {0}]

\* PRs that differ from the bot's own in one respect: the branch, the author
\* (another user, or none known), or the repository the branch lives in.
ForeignPrs ==
  {[pr EXCEPT !.branch = "b2"] : pr \in {p \in OwnPrs : ~p.merged /\ Len(p.title) <= 4}}
  \cup {[pr EXCEPT !.author = a] :
          pr \in {p \in OwnPrs : p.state = "open"}, a \in {"someone", Null}}
  \cup {[pr EXCEPT !.sourceRepo = "other/repo"] :
          pr \in {p \in OwnPrs : ~p.merged /\ Len(p.title) = 4}}

RemotePr == OwnPrs \cup ForeignPrs

NoCache == [cached |-> FALSE, items |-> <<>>]

\* the record getPr and getBranchPr hand out; NoPr stands for null
NoPr == [number |-> 0, sourceBranch |-> "", title |-> <<>>, state |-> "", from |-> "none"]

PrView(number, branch, title, state, from) ==
  [number |-> number, sourceBranch |-> branch, title |-> title, state |-> state,
   from |-> from]

\* ---- getPrList ----
\* the author filter of getPrList
KeepsAuthor(pr, fork, ignoreAuthor) ==
  fork \/ ignoreAuthor \/ (IF pr.author # Null THEN pr.author = BotName ELSE TRUE)

\* the remote state as it is
ListStateRaw(pr) == pr.state

\* pr.state === 'closed' && pr.merged_at?.length ? 'merged' : pr.state
ListState(pr) == IF pr.state = "closed" /\ pr.merged THEN "merged" ELSE pr.state

ListItem(remote, k) ==
  [number |-> k, sourceBranch |-> remote[k].branch, sha |-> ShaOf(k),
   title |-> remote[k].title, state |-> ListState(remote[k]),
   closedAt |-> remote[k].closedAt, sourceRepo |-> remote[k].sourceRepo]

\* what getPrList stores from the REST listing of all pull requests
FetchPrList(remote, fork) ==
  LET all == [k \in 1..Len(remote) |-> ListItem(remote, k)]
  IN SelectSeq(all, LAMBDA i : KeepsAuthor(remote[i.number], fork, FALSE))

\* ---- findPr ----
\* desired states of the form '!state'
Negated == [x \in {"!open", "!closed", "!merged"} |->
              CASE x = "!open" -> "open" [] x = "!closed" -> "closed"
                [] OTHER -> "merged"]

\* a state filter under which '!state' accepts every state
MatchesStateNegationOpen(state, desiredState) ==
  IF desiredState = "all" \/ desiredState \in DOMAIN Negated
  THEN TRUE
  ELSE state = desiredState

\* matchesState(state, desiredState)
MatchesState(state, desiredState) ==
  IF desiredState = "all" THEN TRUE
  ELSE IF desiredState \in DOMAIN Negated
       THEN state # Negated[desiredState]
       ELSE state = desiredState

\* the predicate of findPr without a title
FindPrMatch(p, branchName, state, fork, repo) ==
  /\ p.sourceBranch = branchName
  /\ MatchesState(p.state, state)
  /\ (fork \/ repo = p.sourceRepo)

\* prList.find(...): the first match, or NoItem
NoItem ==
  [number |-> 0, sourceBranch |-> "", sha |-> <<>>, title |-> <<>>, state |-> "",
   closedAt |-> 0, sourceRepo |-> ""]

FindPr(items, branchName, state, fork, repo) ==
  LET hits == SelectSeq(items, LAMBDA p : FindPrMatch(p, branchName, state, fork, repo))
  IN IF Len(hits) > 0 THEN hits[1] ELSE NoItem

\* a call without a title: prTitle is undefined (or '')
NoTitle == <<>>

\* !prTitle || p.title === prTitle
FindPrTitleMatch(p, prTitle) == prTitle = NoTitle \/ p.title = prTitle

\* the state test of findPr
FindPrStateMatch(p, state) == MatchesState(p.state, state)

\* prList.find(...) of findPr({branchName, prTitle, state})
FindPrTitled(items, branchName, prTitle, state, fork, repo) ==
  LET hits == SelectSeq(items, LAMBDA p :
                /\ p.sourceBranch = branchName
                /\ FindPrTitleMatch(p, prTitle)
                /\ FindPrStateMatch(p, state)
                /\ (fork \/ repo = p.sourceRepo))
  IN IF Len(hits) > 0 THEN hits[1] ELSE NoItem

\* ---- getOpenPrs / getClosedPrs ----
\* https://developer.github.com/v4/enum/mergestatestatus
MergeStates ==
  {"BEHIND", "BLOCKED", "CLEAN", "DIRTY", "DRAFT", "HAS_HOOKS", "UNKNOWN", "UNSTABLE"}
CanMergeStates == {"BEHIND", "CLEAN", "HAS_HOOKS", "UNSTABLE"}

\* canMergeReason as the words of the string; <<>> when none is set
NoReason == <<>>
NegativeReviewReason == <<"hasNegativeReview">>
\* `mergeStateStatus = ${pr.mergeStateStatus}`
MergeStateReason(mergeState) == <<"mergeStateStatus", "=", mergeState>>

\* a decision that looks at the merge state before the reviews
MergeableStateFirst(negativeReviews, mergeState, token) ==
  IF mergeState \in CanMergeStates
    THEN [canMerge |-> TRUE, canMergeReason |-> NoReason]
  ELSE IF negativeReviews > 0
    THEN [canMerge |-> FALSE, canMergeReason |-> NegativeReviewReason]
  ELSE IF token # Undefined /\ mergeState = "BLOCKED"
    THEN [canMerge |-> TRUE, canMergeReason |-> NoReason]
  ELSE [canMerge |-> FALSE, canMergeReason |-> MergeStateReason(mergeState)]

\* canMerge and canMergeReason of an open PR node
Mergeable(negativeReviews, mergeState, token) ==
  IF negativeReviews > 0
    THEN [canMerge |-> FALSE, canMergeReason |-> NegativeReviewReason]
  ELSE IF mergeState \in CanMergeStates
    THEN [canMerge |-> TRUE, canMergeReason |-> NoReason]
  ELSE IF token # Undefined /\ mergeState = "BLOCKED"
    THEN [canMerge |-> TRUE, canMergeReason |-> NoReason]
  ELSE [canMerge |-> FALSE, canMergeReason |-> MergeStateReason(mergeState)]

\* pr.isConflicted
IsConflicted(mergeState) == mergeState = "DIRTY"

\* the open-PR graph query: every open PR, state set to 'open'
OpenPrNodes(remote) ==
  SelectSeq([k \in 1..Len(remote) |->
               LET m == Mergeable(remote[k].negativeReviews, remote[k].mergeState,
                                  forkToken)
               IN [number |-> k, sourceBranch |-> remote[k].branch,
                   title |-> remote[k].title, state |-> remote[k].state,
                   canMerge |-> m.canMerge, canMergeReason |-> m.canMergeReason,
                   isConflicted |-> IsConflicted(remote[k].mergeState)]],
            LAMBDA n : n.state = "open")

\* the closed-PR graph query: every PR that is not open, with its comments
ClosedPrNodes(remote, comments) ==
  SelectSeq([k \in 1..Len(remote) |->
               [number |-> k, sourceBranch |-> remote[k].branch,
                title |-> remote[k].title, state |-> ListState(remote[k]),
                comments |-> comments[k]]],
            LAMBDA n : n.state # "open")

\* list[prNo]: the item with that number, as a sequence of at most one
Lookup(items, prNo) == SelectSeq(items, LAMBDA p : p.number = prNo)

\* a request of the pull-request operations
PrReq(op, repo, number, ok) ==
  [op |-> op, repo |-> repo, number |-> number, ok |-> ok,
   ref |-> "", sha |-> <<>>, state |-> "", title |-> <<>>, body |-> <<>>]

PrFailures == {"none", "list", "openq", "closedq", "getpr", "ref", "patch"}

\* getPrList(): the REST listing is fetched once per session
GetPrListOn(f, cache, remote) ==
  IF cache.cached
  THEN [list |-> cache, reqs |-> <<>>, raised |-> FALSE]
  ELSE IF f = "list"
  THEN [list |-> cache, reqs |-> <<PrReq("list", Target, 0, FALSE)>>, raised |-> TRUE]
  ELSE [list |-> [cached |-> TRUE, items |-> FetchPrList(remote, forkMode)],
        reqs |-> <<PrReq("list", Target, 0, TRUE)>>, raised |-> FALSE]

\* getOpenPrs(): an empty map is stored before the query, and stays on failure
GetOpenPrsOn(f, cache, remote) ==
  IF cache.cached
  THEN [list |-> cache, reqs |-> <<>>, failed |-> FALSE]
  ELSE IF f = "openq"
  THEN [list |-> [cached |-> TRUE, items |-> <<>>],
        reqs |-> <<PrReq("openq", RepoName, 0, FALSE)>>, failed |-> TRUE]
  ELSE [list |-> [cached |-> TRUE, items |-> OpenPrNodes(remote)],
        reqs |-> <<PrReq("openq", RepoName, 0, TRUE)>>, failed |-> FALSE]

\* getClosedPrs(): likewise
GetClosedPrsOn(f, cache, remote, comments) ==
  IF cache.cached
  THEN [list |-> cache, reqs |-> <<>>, failed |-> FALSE]
  ELSE IF f = "closedq"
  THEN [list |-> [cached |-> TRUE, items |-> <<>>],
        reqs |-> <<PrReq("closedq", RepoName, 0, FALSE)>>, failed |-> TRUE]
  ELSE [list |-> [cached |-> TRUE, items |-> ClosedPrNodes(remote, comments)],
        reqs |-> <<PrReq("closedq", RepoName, 0, TRUE)>>, failed |-> FALSE]

\* the harmonised body of GET pulls/<prNo>: the branch only for an open PR
RestPr(remote, prNo) ==
  PrView(prNo,
         IF remote[prNo].state = "open" THEN remote[prNo].branch ELSE Undefined,
         remote[prNo].title, remote[prNo].state, "rest")

\* getPr, third stage: the direct fetch
GetPrRest(f, prNo, o, c, remote) ==
  IF f = "getpr" \/ prNo > Len(remote)
  THEN [pr |-> NoPr, open |-> o.list, closed |-> c.list,
        reqs |-> o.reqs \o c.reqs \o <<PrReq("getpr", Target, prNo, FALSE)>>,
        raised |-> TRUE, failed |-> TRUE]
  ELSE [pr |-> RestPr(remote, prNo), open |-> o.list, closed |-> c.list,
        reqs |-> o.reqs \o c.reqs \o <<PrReq("getpr", Target, prNo, TRUE)>>,
        raised |-> FALSE, failed |-> o.failed \/ c.failed]

\* getPr, second stage: the closed list
GetPrClosed(f, prNo, o, c, remote) ==
  IF Lookup(c.list.items, prNo) # <<>>
  THEN LET p == Lookup(c.list.items, prNo)[1]
       IN [pr |-> PrView(prNo, p.sourceBranch, p.title, p.state, "closed"),
           open |-> o.list, closed |-> c.list, reqs |-> o.reqs \o c.reqs,
           raised |-> FALSE, failed |-> o.failed \/ c.failed]
  ELSE GetPrRest(f, prNo, o, c, remote)

\* getPr going to the closed list without looking at the open one
GetPrOpenSkipped(f, prNo, o, closed, remote, comments) ==
  GetPrClosed(f, prNo, o, GetClosedPrsOn(f, closed, remote, comments), remote)

\* getPr, first stage: the open list
GetPrOpen(f, prNo, o, closed, remote, comments) ==
  IF Lookup(o.list.items, prNo) # <<>>
  THEN LET p == Lookup(o.list.items, prNo)[1]
       IN [pr |-> PrView(prNo, p.sourceBranch, p.title, p.state, "open"),
           open |-> o.list, closed |-> closed, reqs |-> o.reqs,
           raised |-> FALSE, failed |-> o.failed]
  ELSE GetPrClosed(f, prNo, o, GetClosedPrsOn(f, closed, remote, comments), remote)

\* getPr(prNo) on the given caches and remote
GetPrOn(f, prNo, open, closed, remote, comments) ==
  IF prNo = 0
  THEN [pr |-> NoPr, open |-> open, closed |-> closed, reqs |-> <<>>,
        raised |-> FALSE, failed |-> FALSE]
  ELSE GetPrOpen(f, prNo, GetOpenPrsOn(f, open, remote), closed, remote, comments)

\* ---- getBranchPr ----
REOPEN_THRESHOLD_MILLIS == 1000 * 60 * 60 * 24 * 7

\* how long before the call the closed PRs were closed, in ms
ClosedAgo ==
  {REOPEN_THRESHOLD_MILLIS - 1, REOPEN_THRESHOLD_MILLIS, REOPEN_THRESHOLD_MILLIS + 1}

\* closedMillisAgo > REOPEN_THRESHOLD_MILLIS
TooOld(closedMillisAgo) == closedMillisAgo > REOPEN_THRESHOLD_MILLIS

RefReq(branchName, sha, ok) ==
  [PrReq("ref", repository, 0, ok) EXCEPT !.ref = branchName, !.sha = sha]

ReopenReq(number, title, ok) ==
  [PrReq("patch", repository, number, ok) EXCEPT !.state = "open", !.title = title]

\* the remote after PATCH {state: 'open', title}; the PRs live in the
\* repository the session targets, a request to another one leaves them alone
Reopened(remote, repo, number, title) ==
  IF repo = Target /\ number \in 1..Len(remote)
  THEN [remote EXCEPT ![number] =
          [@ EXCEPT !.state = "open", !.title = title, !.closedAt = 0]]
  ELSE remote

\* closedPrList without the entry of `number`
WithoutPr(cache, number) ==
  [cache EXCEPT !.items = SelectSeq(@, LAMBDA p : p.number # number)]

BranchPrEnd(reqs, remote, list, open, closed, cachedPrs, result, raised, failed) ==
  [reqs |-> reqs, remote |-> remote, prList |-> list, open |-> open,
   closed |-> closed, branchPrs |-> cachedPrs, result |-> result,
   raised |-> raised, failed |-> failed]

\* config.branchPrs[branchName] = await getPr(number); return it
StoreBranchPr(branchName, reqs, remote, list, g, failed) ==
  IF g.raised
  THEN BranchPrEnd(reqs \o g.reqs, remote, list, g.open, g.closed, branchPrs,
                   NoPr, TRUE, TRUE)
  ELSE BranchPrEnd(reqs \o g.reqs, remote, list, g.open, g.closed,
                   [branchPrs EXCEPT ![branchName] = g.pr], g.pr, FALSE,
                   failed \/ g.failed)

\* a reopen that drops the caches before the PATCH has answered
ReopenPrDropsEarly(branchName, f, reqs, list, item) ==
  IF f = "ref"
  THEN BranchPrEnd(reqs \o <<RefReq(branchName, item.sha, FALSE)>>, remotePrs, list,
                   openPrList, closedPrList, branchPrs, NoPr, FALSE, TRUE)
  ELSE IF f = "patch"
  THEN BranchPrEnd(reqs \o <<RefReq(branchName, item.sha, TRUE),
                             ReopenReq(item.number, StripAutoclosed(item.title), FALSE)>>,
                   remotePrs, list, NoCache, WithoutPr(closedPrList, item.number),
                   branchPrs, NoPr, FALSE, TRUE)
  ELSE LET title  == StripAutoclosed(item.title)
           remote == Reopened(remotePrs, repository, item.number, title)
       IN StoreBranchPr(branchName,
            reqs \o <<RefReq(branchName, item.sha, TRUE),
                      ReopenReq(item.number, title, TRUE)>>,
            remote, list,
            GetPrOn(f, item.number, NoCache, WithoutPr(closedPrList, item.number),
                    remote, remoteComments),
            FALSE)

\* the reopen of an autoclosed PR: ref, PATCH, cache deletions, getPr
ReopenPr(branchName, f, reqs, list, item) ==
  IF f = "ref"
  THEN BranchPrEnd(reqs \o <<RefReq(branchName, item.sha, FALSE)>>, remotePrs, list,
                   openPrList, closedPrList, branchPrs, NoPr, FALSE, TRUE)
  ELSE IF f = "patch"
  THEN BranchPrEnd(reqs \o <<RefReq(branchName, item.sha, TRUE),
                             ReopenReq(item.number, StripAutoclosed(item.title), FALSE)>>,
                   remotePrs, list, openPrList, closedPrList, branchPrs, NoPr,
                   FALSE, TRUE)
  ELSE LET title  == StripAutoclosed(item.title)
           remote == Reopened(remotePrs, repository, item.number, title)
       IN StoreBranchPr(branchName,
            reqs \o <<RefReq(branchName, item.sha, TRUE),
                      ReopenReq(item.number, title, TRUE)>>,
            remote, list,
            GetPrOn(f, item.number, NoCache, WithoutPr(closedPrList, item.number),
                    remote, remoteComments),
            FALSE)

\* getBranchPr after the open PR was not found: the autoclosed PR
BranchPrClosed(branchName, ago, f, l) ==
  LET item == FindPr(l.list.items, branchName, "closed", forkMode, repository)
  IN IF EndsWith(item.title, AutoclosedSuffix) /\ item.closedAt # 0
     THEN IF TooOld((ClosedAt + ago) - item.closedAt)
          THEN BranchPrEnd(l.reqs, remotePrs, l.list, openPrList, closedPrList,
                           branchPrs, NoPr, FALSE, FALSE)
          ELSE ReopenPr(branchName, f, l.reqs, l.list, item)
     ELSE BranchPrEnd(l.reqs, remotePrs, l.list, openPrList, closedPrList,
                      branchPrs, NoPr, FALSE, FALSE)

\* getBranchPr after the list is there
BranchPrOpen(branchName, ago, f, l) ==
  LET item == FindPr(l.list.items, branchName, "open", forkMode, repository)
  IN IF l.raised
     THEN BranchPrEnd(l.reqs, remotePrs, l.list, openPrList, closedPrList,
                      branchPrs, NoPr, TRUE, TRUE)
     ELSE IF item.number # 0
     THEN StoreBranchPr(branchName, l.reqs, remotePrs, l.list,
            GetPrOn(f, item.number, openPrList, closedPrList, remotePrs,
                    remoteComments),
            FALSE)
     ELSE BranchPrClosed(branchName, ago, f, l)

\* getBranchPr(branchName), called `ago` ms after ClosedAt
GetBranchPrCall(branchName, ago, f) ==
  IF branchPrs[branchName] # NoPr
  THEN BranchPrEnd(<<>>, remotePrs, prList, openPrList, closedPrList, branchPrs,
                   branchPrs[branchName], FALSE, FALSE)
  ELSE BranchPrOpen(branchName, ago, f, GetPrListOn(f, prList, remotePrs))

NoBranchPrCall ==
  [called |-> FALSE, branchName |-> "", ago |-> 0, hit |-> FALSE, reqs |-> <<>>,
   result |-> NoPr, raised |-> FALSE]

\* the call gets as far as the age test
ReachesAgeTest(branchName, f) ==
  LET l == GetPrListOn(f, prList, remotePrs)
      item == FindPr(l.list.items, branchName, "closed", forkMode, repository)
  IN /\ branchPrs[branchName] = NoPr
     /\ ~l.raised
     /\ FindPr(l.list.items, branchName, "open", forkMode, repository).number = 0
     /\ EndsWith(item.title, AutoclosedSuffix)
     /\ item.closedAt # 0

GetBranchPr ==
  /\ \E branchName \in Branches, ago \in ClosedAgo, f \in PrFailures :
     \E c \in {GetBranchPrCall(branchName, ago, f)} :
       /\ f = "none" \/ c.failed        \* f names a request the call issued
       /\ ago = REOPEN_THRESHOLD_MILLIS \/ ReachesAgeTest(branchName, f)
       /\ remotePrs' = c.remote
       /\ prList' = c.prList
       /\ openPrList' = c.open
       /\ closedPrList' = c.closed
       /\ branchPrs' = c.branchPrs
       /\ brLast' = [called |-> TRUE, branchName |-> branchName, ago |-> ago,
                     hit |-> branchPrs[branchName] # NoPr, reqs |-> c.reqs,
                     result |-> c.result, raised |-> c.raised]
  /\ UNCHANGED <<toolVars, remoteComments, cmLast, prLast, sessionVars, protVars, mergeVars,
                 statusVars, issueVars>>

NoCommentCall ==
  [called |-> FALSE, op |-> "none", args |-> [number |-> 1, topic |-> Null, content |-> <<>>],
   reqs |-> <<>>, result |-> "none", commentId |-> 0, seen |-> <<>>]

NoPrCall ==
  [op |-> "none", branchName |-> "", prTitle |-> NoTitle, state |-> "", number |-> 0,
   item |-> NoItem, view |-> NoPr, list |-> <<>>, reqs |-> <<>>, raised |-> FALSE]

PrInit ==
  /\ remotePrs \in SeqUpTo(RemotePr, MaxPrs)
  /\ remoteComments = [k \in 1..Len(remotePrs) |-> <<>>]
  /\ prList = NoCache
  /\ openPrList = NoCache
  /\ closedPrList = NoCache
  /\ branchPrs = [b \in Branches |-> NoPr]
  /\ brLast = NoBranchPrCall
  /\ cmLast = NoCommentCall
  /\ prLast = NoPrCall

PrIdle ==
  /\ remotePrs = <<>>
  /\ remoteComments = <<>>
  /\ prList = NoCache
  /\ openPrList = NoCache
  /\ closedPrList = NoCache
  /\ branchPrs = [b \in Branches |-> NoPr]
  /\ brLast = NoBranchPrCall
  /\ cmLast = NoCommentCall
  /\ prLast = NoPrCall

\* ---- the read operations as calls ----
PrTitles == {NoTitle, PlainTitle}
StateFilters == {"all", "open", "closed", "!closed"}

\* getPrList()
GetPrList ==
  /\ \E f \in {"none", "list"} :
     \E l \in {GetPrListOn(f, prList, remotePrs)} :
       /\ f = "none" \/ l.raised
       /\ prList' = l.list
       /\ prLast' = [NoPrCall EXCEPT !.op = "getPrList", !.list = l.list.items,
                                     !.reqs = l.reqs, !.raised = l.raised]
  /\ UNCHANGED <<toolVars, remotePrs, remoteComments, openPrList, closedPrList, branchPrs,
                 brLast, cmLast, sessionVars, protVars, mergeVars, statusVars,
                 issueVars>>

\* findPr({branchName, prTitle, state})
FindPrOp ==
  /\ \E branchName \in Branches, prTitle \in PrTitles, state \in StateFilters,
        f \in {"none", "list"} :
     \E l \in {GetPrListOn(f, prList, remotePrs)} :
       /\ f = "none" \/ l.raised
       /\ prList' = l.list
       /\ prLast' = [NoPrCall EXCEPT
                       !.op = "findPr", !.branchName = branchName,
                       !.prTitle = prTitle, !.state = state,
                       !.item = IF l.raised THEN NoItem
                                ELSE FindPrTitled(l.list.items, branchName, prTitle,
                                                  state, forkMode, repository),
                       !.reqs = l.reqs, !.raised = l.raised]
  /\ UNCHANGED <<toolVars, remotePrs, remoteComments, openPrList, closedPrList, branchPrs,
                 brLast, cmLast, sessionVars, protVars, mergeVars, statusVars,
                 issueVars>>

\* getPr(prNo)
GetPr ==
  /\ \E prNo \in 0..MaxPrs, f \in {"none", "openq", "closedq", "getpr"} :
     \E g \in {GetPrOn(f, prNo, openPrList, closedPrList, remotePrs, remoteComments)} :
       /\ f = "none" \/ g.failed
       /\ openPrList' = g.open
       /\ closedPrList' = g.closed
       /\ prLast' = [NoPrCall EXCEPT !.op = "getPr", !.number = prNo, !.view = g.pr,
                                     !.reqs = g.reqs, !.raised = g.raised]
  /\ UNCHANGED <<toolVars, remotePrs, remoteComments, prList, branchPrs, brLast, cmLast,
                 sessionVars, protVars, mergeVars, statusVars, issueVars>>

\* ---- updatePr ----
UpdateStates == {Null, "open", "closed"}
\* "host": the PATCH fails with an ExternalHostError, "patch": with another error
UpdateFailures == {"none", "patch", "host"}

UpdateReq(prNo, title, state, ok) ==
  [PrReq("patch", Target, prNo, ok) EXCEPT
     !.title = title, !.state = IF state = Null THEN "" ELSE state]

\* the remote after PATCH pulls/<prNo> {title, state?} sent to `repo`
Updated(remote, repo, prNo, title, state) ==
  IF repo = RepoName /\ prNo \in 1..Len(remote)
  THEN [remote EXCEPT ![prNo] =
          [@ EXCEPT !.title = title,
                    !.state = IF state = Null THEN @ ELSE state,
                    !.closedAt = IF state = "closed" /\ remote[prNo].state = "open"
                                 THEN ClosedAt
                                 ELSE IF state = "open" THEN 0 ELSE @]]
  ELSE remote

\* updatePr({number, prTitle, state}); a merged PR stays as it is
UpdatePr ==
  /\ \E prNo \in 1..Len(remotePrs), title \in PrTitles \ {NoTitle},
        state \in UpdateStates, f \in UpdateFailures :
       /\ ~remotePrs[prNo].merged
       /\ remotePrs' = IF f = "none"
                       THEN Updated(remotePrs, Target, prNo, title, state)
                       ELSE remotePrs
       /\ prLast' = [NoPrCall EXCEPT !.op = "updatePr", !.number = prNo,
                                     !.prTitle = title,
                                     !.state = IF state = Null THEN "" ELSE state,
                                     !.reqs = <<UpdateReq(prNo, title, state, f = "none")>>,
                                     !.raised = (f = "host")]
  /\ UNCHANGED <<toolVars, remoteComments, prList, openPrList, closedPrList, branchPrs,
                 brLast, cmLast, sessionVars, protVars, mergeVars, statusVars,
                 issueVars>>

\* a session over one pull request of the bot
OnePrInit ==
  /\ remotePrs \in {<<pr>> : pr \in OwnPrs}
  /\ remoteComments = <<<<>>>>
  /\ prList = NoCache
  /\ openPrList = NoCache
  /\ closedPrList = NoCache
  /\ branchPrs = [b \in Branches |-> NoPr]
  /\ brLast = NoBranchPrCall
  /\ cmLast = NoCommentCall
  /\ prLast = NoPrCall

\* ------------------------------------------------------------------------
\* Comments: getComments, ensureComment
\* ------------------------------------------------------------------------
\* `### ${topic}\n\n`
Header(topic) == <<"###", topic, "\n\n">>

CommentTopics == {"t"}
\* contents without secrets (sanitize leaves them as they are); the third
\* reads like a comment that carries the topic "t"
CommentContents == {<<"x">>, <<"y">>, Header("t") \o <<"x">>}

CommentArgs == [number : {1}, topic : {Null} \cup CommentTopics, content : CommentContents]

CommentFailures == {"none", "closedq", "get404", "get", "locked", "write"}

CommentReq(op, number, body, ok) ==
  [PrReq(op, Target, number, ok) EXCEPT !.body = body]

\* getComments(issueNo): from the closed-PR list when the number is in it,
\* else from the remote
GetCommentsOn(issueNo, f, c) ==
  IF Lookup(c.list.items, issueNo) # <<>>
  THEN [comments |-> Lookup(c.list.items, issueNo)[1].comments, closed |-> c.list,
        reqs |-> c.reqs, error |-> "none", failed |-> c.failed]
  ELSE IF f \in {"get404", "get"}
  THEN [comments |-> <<>>, closed |-> c.list,
        reqs |-> c.reqs \o <<CommentReq("comments", issueNo, <<>>, FALSE)>>,
        error |-> f, failed |-> TRUE]
  ELSE [comments |-> remoteComments[issueNo], closed |-> c.list,
        reqs |-> c.reqs \o <<CommentReq("comments", issueNo, <<>>, TRUE)>>,
        error |-> "none", failed |-> c.failed]

\* a content-only match of any comment that ends with the content
ContentMatchesTail(commentBody, body) == EndsWith(commentBody, body)

\* comment.body === body
ContentMatches(commentBody, body) == commentBody = body

\* the comments that the forEach of ensureComment matches
MatchingComments(comments, topic, body) ==
  IF topic # Null
  THEN SelectSeq(comments, LAMBDA c : StartsWith(c.body, Header(topic)))
  ELSE SelectSeq(comments, LAMBDA c : ContentMatches(c.body, body))

\* the body ensureComment wants
CommentBody(topic, content) ==
  IF topic # Null THEN Header(topic) \o content ELSE content

\* the id the remote gives a new comment
NextId(comments) ==
  1 + Len(comments)

CommentEnd(g, reqs, comments, result, commentId, failed) ==
  [reqs |-> g.reqs \o reqs, comments |-> comments, closed |-> g.closed,
   result |-> result, commentId |-> commentId, seen |-> g.comments,
   failed |-> failed]

\* ensureComment after getComments
EnsureCommentOn(a, f, g, body, hits) ==
  IF g.error = "get404"
  THEN CommentEnd(g, <<>>, remoteComments, "raised", 0, TRUE)
  ELSE IF g.error = "get"
  THEN CommentEnd(g, <<>>, remoteComments, "false", 0, TRUE)
  ELSE IF hits = <<>>
  THEN IF f \in {"locked", "write"}
       THEN CommentEnd(g, <<CommentReq("add", a.number, body, FALSE)>>,
                       remoteComments, "false", 0, TRUE)
       ELSE CommentEnd(g, <<CommentReq("add", a.number, body, TRUE)>>,
                       [remoteComments EXCEPT ![a.number] =
                          Append(@, [id |-> NextId(@), body |-> body])],
                       "true", 0, g.failed)
  ELSE IF a.topic # Null /\ hits[Len(hits)].body # body
  THEN IF f \in {"locked", "write"}
       THEN CommentEnd(g, <<CommentReq("edit", hits[Len(hits)].id, body, FALSE)>>,
                       remoteComments, "false", hits[Len(hits)].id, TRUE)
       ELSE CommentEnd(g, <<CommentReq("edit", hits[Len(hits)].id, body, TRUE)>>,
                       [remoteComments EXCEPT ![a.number] =
                          [k \in 1..Len(@) |->
                             IF @[k].id = hits[Len(hits)].id
                             THEN [@[k] EXCEPT !.body = body] ELSE @[k]]],
                       "true", hits[Len(hits)].id, g.failed)
  ELSE CommentEnd(g, <<>>, remoteComments, "true", hits[Len(hits)].id, g.failed)

\* ensureComment(a) on the current state, with failure f
EnsureCommentCall(a, f) ==
  LET g == GetCommentsOn(a.number, f,
             GetClosedPrsOn(f, closedPrList, remotePrs, remoteComments))
      body == CommentBody(a.topic, a.content)
  IN EnsureCommentOn(a, f, g, body, MatchingComments(g.comments, a.topic, body))

EnsureComment ==
  /\ \E a \in CommentArgs, f \in CommentFailures :
     \E c \in {EnsureCommentCall(a, f)} :
       /\ a.number \in 1..Len(remoteComments)
       /\ Len(c.comments[a.number]) <= MaxComments
       /\ f = "none" \/ c.failed          \* f names a request the call issued
       /\ remoteComments' = c.comments
       /\ closedPrList' = c.closed
       /\ cmLast' = [called |-> TRUE, op |-> "ensureComment", args |-> a,
                     reqs |-> c.reqs, result |-> c.result,
                     commentId |-> c.commentId, seen |-> c.seen]
  /\ UNCHANGED <<toolVars, remotePrs, prList, openPrList, branchPrs, brLast, prLast,
                 sessionVars, protVars, mergeVars, statusVars, issueVars>>

\* ---- ensureCommentRemoval ----
\* white space at the ends of a body
WhiteSpace == {" ", "\n", "\n\n"}

\* a comparison of the body as it is
Untrimmed(body) == body

\* comment.body.trim()
RECURSIVE Trim(_)
Trim(body) ==
  IF body = <<>> THEN body
  ELSE IF Head(body) \in WhiteSpace THEN Trim(Tail(body))
  ELSE IF body[Len(body)] \in WhiteSpace THEN Trim(SubSeq(body, 1, Len(body) - 1))
  ELSE body

\* no content is given, or the empty one
NoContent == <<>>

RemovalArgs ==
  [number : {1}, topic : {Null} \cup CommentTopics,
   content : {NoContent, <<"x">>, <<"x", "\n">>}]

RemovalFailures == {"none", "closedq", "get404", "get", "delete"}

\* the bodies of the comments that are there before the removal
RemovalBodies ==
  {<<"x">>, <<"x", "\n">>, <<"y">>, Header("t") \o <<"x">>, Header("t") \o <<"y">>}

\* comments.find(byTopic) or comments.find(byContent): the matches in list order
RemovalMatches(comments, a) ==
  IF a.topic # Null
  THEN SelectSeq(comments, LAMBDA c : StartsWith(c.body, Header(a.topic)))
  ELSE IF a.content # NoContent
  THEN SelectSeq(comments, LAMBDA c : Trim(c.body) = a.content)
  ELSE <<>>

\* the remote without the comment of that id
WithoutComment(comments, issueNo, commentId) ==
  [comments EXCEPT ![issueNo] = SelectSeq(@, LAMBDA c : c.id # commentId)]

\* ensureCommentRemoval(a) with failure f: a failed getComments raises, a
\* failed delete is logged
EnsureCommentRemovalCall(a, f) ==
  LET g == GetCommentsOn(a.number, f,
             GetClosedPrsOn(f, closedPrList, remotePrs, remoteComments))
      hits == RemovalMatches(g.comments, a)
  IN
  IF g.error # "none" THEN CommentEnd(g, <<>>, remoteComments, "raised", 0, TRUE)
  ELSE IF hits = <<>> THEN CommentEnd(g, <<>>, remoteComments, "done", 0, g.failed)
  ELSE IF f = "delete"
  THEN CommentEnd(g, <<CommentReq("delete", hits[1].id, <<>>, FALSE)>>,
                  remoteComments, "done", hits[1].id, TRUE)
  ELSE CommentEnd(g, <<CommentReq("delete", hits[1].id, <<>>, TRUE)>>,
                  WithoutComment(remoteComments, a.number, hits[1].id), "done",
                  hits[1].id, g.failed)

EnsureCommentRemoval ==
  /\ \E a \in RemovalArgs, f \in RemovalFailures :
     \E c \in {EnsureCommentRemovalCall(a, f)} :
       /\ a.number \in 1..Len(remoteComments)
       /\ f = "none" \/ c.failed          \* f names a request the call issued
       /\ remoteComments' = c.comments
       /\ closedPrList' = c.closed
       /\ cmLast' = [called |-> TRUE, op |-> "ensureCommentRemoval", args |-> a,
                     reqs |-> c.reqs, result |-> c.result,
                     commentId |-> c.commentId, seen |-> c.seen]
  /\ UNCHANGED <<toolVars, remotePrs, prList, openPrList, branchPrs, brLast, prLast,
                 sessionVars, protVars, mergeVars, statusVars, issueVars>>

\* one pull request, open or closed, with comments
RemovalInit ==
  /\ remotePrs \in {<<pr>> : pr \in {p \in OwnPrs : Len(p.title) = 2}}
  /\ \E bodies \in SeqUpTo(RemovalBodies, MaxComments) :
       remoteComments = <<[k \in 1..Len(bodies) |-> [id |-> k, body |-> bodies[k]]]>>
  /\ prList = NoCache
  /\ openPrList = NoCache
  /\ closedPrList = NoCache
  /\ branchPrs = [b \in Branches |-> NoPr]
  /\ brLast = NoBranchPrCall
  /\ cmLast = NoCommentCall
  /\ prLast = NoPrCall

\* one pull request, open or closed, without comments yet
CommentInit ==
  /\ remotePrs \in {<<pr>> : pr \in {p \in OwnPrs : Len(p.title) = 2}}
  /\ remoteComments = <<<<>>>>
  /\ prList = NoCache
  /\ openPrList = NoCache
  /\ closedPrList = NoCache
  /\ branchPrs = [b \in Branches |-> NoPr]
  /\ brLast = NoBranchPrCall
  /\ cmLast = NoCommentCall
  /\ prLast = NoPrCall

\* ------------------------------------------------------------------------
\* initRepo
\* ------------------------------------------------------------------------
\* which request of the fork flow the remote fails, if any
InitFailures == {"none", "repos", "fork", "update"}
\* default_branch of the fork against the parent's
ForkDefaults == {"same", "differs"}

ReposError == [statusCode |-> 500, message |-> <<"Response", "code", "500">>]
ExternalHostError == [statusCode |-> 0, message |-> <<"external-host-error">>]
CannotFork == [statusCode |-> 0, message |-> REPOSITORY_CANNOT_FORK]

\* the derived flags of the config that replaces the old one: all undefined
KeptConfigFlags(old) == old

FreshConfigFlags(old) ==
  [repoForceRebase |-> Undefined, prReviewsRequired |-> FALSE,
   pushProtection |-> FALSE]

\* an initRepo that never saves the parent's name
InitEndNoParent(repo, parent, fm, method, issues, known, reqs, error) ==
  [repository |-> repo, parentRepo |-> Null, forkMode |-> fm,
   mergeMethod |-> method, hasIssuesEnabled |-> issues, existingRepos |-> known,
   reqs |-> reqs, error |-> error, raised |-> error # NoError,
   result |-> IF error = NoError THEN RepoResult ELSE NoResult]

\* what a call of initRepo leaves behind and hands back
InitEnd(repo, parent, fm, method, issues, known, reqs, error) ==
  [repository |-> repo, parentRepo |-> parent, forkMode |-> fm,
   mergeMethod |-> method, hasIssuesEnabled |-> issues, existingRepos |-> known,
   reqs |-> reqs, error |-> error, raised |-> error # NoError,
   result |-> IF error = NoError THEN RepoResult ELSE NoResult]

\* a listing that is fetched anew by every session
ExistingReposRefetched(old, listed) == [fetched |-> TRUE, hasFork |-> listed]

\* existingRepos = existingRepos || (the listing of the user's repositories)
ExistingReposOr(old, listed) ==
  IF old.fetched THEN old ELSE [fetched |-> TRUE, hasFork |-> listed]

\* a fork flow that waits whether or not the fork was there
AfterForkAlwaysDelay(hasFork) == <<"delay">>

\* after the fork request: the forced update of the default branch of a
\* fork that was there, the 30 s delay for one that was created
AfterFork(hasFork) == IF hasFork THEN <<"updateRef">> ELSE <<"delay">>

\* a failed update of the fork that is only logged
UpdateRefLogged(f) == NoError

\* what the failed update of the fork's default branch raises
UpdateRefError(f) == IF f = "update" THEN ExternalHostError ELSE NoError

\* the fork flow; git.initRepo and the return follow it.  reqs holds the
\* requests and the delay of the call, in order.
ForkFlow(meta, listed, forkDefault, f, method) ==
  LET fetch == ~existingRepos.fetched
      reqs1 == <<"graphql">> \o (IF fetch THEN <<"repos">> ELSE <<>>)
      known == ExistingReposOr(existingRepos, listed)
      reqs2 == reqs1 \o <<"fork">>
               \o (IF forkDefault = "differs" THEN <<"createRef", "setDefault">>
                   ELSE <<>>)
      reqs3 == reqs2 \o AfterFork(known.hasFork)
      issues == meta.repo.hasIssuesEnabled
  IN
  IF fetch /\ f = "repos"
  THEN InitEnd(Null, RepoName, TRUE, method, issues, existingRepos, reqs1, ReposError)
  ELSE IF f = "fork"
  THEN InitEnd(Null, RepoName, TRUE, method, issues, known, reqs1 \o <<"fork">>,
               CannotFork)
  ELSE IF reqs3[Len(reqs3)] = "updateRef"
  THEN InitEnd(ForkName, RepoName, TRUE, method, issues, known, reqs3,
               UpdateRefError(f))
  ELSE InitEnd(ForkName, RepoName, TRUE, method, issues,
               [known EXCEPT !.hasFork = TRUE], reqs3, NoError)

\* initRepo({repository: RepoName, forkMode: fm}) against the answers `meta`
\* (metadata query), `listed` (the fork is among the user's repositories),
\* `forkDefault` and the failure f
InitRepoCall(meta, fm, listed, forkDefault, f) ==
  LET thrown == MetaThrown(meta)
      method == DetectMergeMethod(meta.repo.rebaseMergeAllowed,
                                  meta.repo.squashMergeAllowed,
                                  meta.repo.mergeCommitAllowed)
  IN
  IF thrown # NoError
  THEN \* the fresh config holds the requested repository and nothing else
       InitEnd(RepoName, Null, FALSE, Undefined, TRUE, existingRepos,
               <<"graphql">>, MetaCaught(thrown))
  ELSE IF fm
  THEN ForkFlow(meta, listed, forkDefault, f, method)
  ELSE InitEnd(RepoName, Null, FALSE, method, meta.repo.hasIssuesEnabled,
               existingRepos, <<"graphql">>, NoError)

\* every cache of the old config is filled
HasCaches ==
  /\ issueList.cached /\ prList.cached
  /\ openPrList.cached \/ closedPrList.cached
  /\ \E b \in Branches : branchPrs[b] # NoPr
  /\ repoForceRebase # Undefined

\* initRepo with the metadata answer drawn from `metas`, the fork's default
\* branch from `defaults` and the failure from `failures`.  hasIssuesEnabled
\* stands for `config.hasIssuesEnabled !== false`.  The records of the last
\* calls belong to the session and start anew with it.
InitRepoOn(metas, defaults, failures) ==
  /\ mergePc = "idle"
  /\ \E meta \in metas, fm \in BOOLEAN, listed \in BOOLEAN,
        forkDefault \in defaults, f \in failures :
     \E c \in {InitRepoCall(meta, fm, listed, forkDefault, f)} :
     \E flags \in {FreshConfigFlags([repoForceRebase |-> repoForceRebase,
                                     prReviewsRequired |-> prReviewsRequired,
                                     pushProtection |-> pushProtection])} :
       \* each input is one the call has consumed
       /\ f = "none" \/ c.reqs[Len(c.reqs)] = (IF f = "update" THEN "updateRef" ELSE f)
       /\ listed = FALSE \/ (c.existingRepos.fetched /\ ~existingRepos.fetched)
       /\ forkDefault = "same" \/ (c.repository = ForkName)
       /\ repository' = c.repository
       /\ parentRepo' = c.parentRepo
       /\ forkMode' = c.forkMode
       /\ forkToken' = IF c.forkMode THEN ForkToken ELSE Undefined
       /\ mergeMethod' = c.mergeMethod
       /\ existingRepos' = c.existingRepos
       /\ hasIssuesEnabled' = c.hasIssuesEnabled
       /\ initLast' = [called |-> TRUE, repository |-> c.repository,
                       parentRepo |-> c.parentRepo,
                       listing |-> existingRepos, listed |-> listed,
                       failed |-> f,
                       forkMode |-> fm, meta |-> meta,
                       reqs |-> c.reqs, raised |-> c.raised, error |-> c.error,
                       result |-> c.result, hadCaches |-> HasCaches]
       /\ repoForceRebase' = flags.repoForceRebase
       /\ prReviewsRequired' = flags.prReviewsRequired
       /\ pushProtection' = flags.pushProtection
  /\ bpRequests' = 0
  /\ rbLast' = NoRebaseCall
  /\ issueList' = NoIssueList
  /\ prList' = NoCache
  /\ openPrList' = NoCache
  /\ closedPrList' = NoCache
  /\ branchPrs' = [b \in Branches |-> NoPr]
  /\ issueLast' = NoIssueCall
  /\ brLast' = NoBranchPrCall
  /\ cmLast' = NoCommentCall
  /\ prLast' = NoPrCall
  /\ UNCHANGED <<toolVars, remoteIssues, remotePrs, remoteComments, mergeVars, statusVars>>

InitRepo == InitRepoOn(MetaResponses, ForkDefaults, InitFailures)

\* ---- a session: initRepo, then operations, then the next initRepo ----
\* a repository that passes and an archived one
SessionMetas ==
  {[ok |-> TRUE, error |-> NoError,
    repo |-> [NoRepo EXCEPT !.present = TRUE, !.defaultBranch = TRUE]],
   [ok |-> TRUE, error |-> NoError,
    repo |-> [NoRepo EXCEPT !.present = TRUE, !.defaultBranch = TRUE,
                            !.isArchived = TRUE]]}

InitRepoSession == InitRepoOn(SessionMetas, {"same"}, {"none", "fork"})

\* the caller goes on with a repository only when initRepo has returned
Ready == ~initLast.raised

\* one open issue and one pull request of the bot: open, closed, or closed
\* by the bot itself ("- autoclosed")
SessionRemoteInit ==
  /\ hasIssuesEnabled = TRUE
  /\ remoteIssues = <<[title |-> "T", state |-> "open", body |-> "b1"]>>
  /\ issueList = NoIssueList
  /\ issueLast = NoIssueCall
  /\ remotePrs \in {<<pr>> : pr \in {p \in OwnPrs : ~p.merged /\ Len(p.title) # 6}}
  /\ remoteComments = <<<<>>>>
  /\ prList = NoCache
  /\ openPrList = NoCache
  /\ closedPrList = NoCache
  /\ branchPrs = [b \in Branches |-> NoPr]
  /\ brLast = NoBranchPrCall
  /\ cmLast = NoCommentCall
  /\ prLast = NoPrCall

\* getIssueList()
GetIssueList ==
  /\ \E f \in {"none", "list"} :
       /\ f = "none" \/ (hasIssuesEnabled /\ ~issueList.cached)
       /\ issueList' = IF hasIssuesEnabled /\ ~issueList.cached /\ f = "none"
                       THEN [cached |-> TRUE, items |-> GetIssues(remoteIssues)]
                       ELSE issueList
       /\ issueLast' = [NoIssueCall EXCEPT
                          !.called = TRUE,
                          !.reqs = IF hasIssuesEnabled /\ ~issueList.cached
                                   THEN <<IssueReq("list", 0, f = "none")>>
                                   ELSE <<>>,
                          !.failed = (f # "none")]
  /\ UNCHANGED <<toolVars, hasIssuesEnabled, remoteIssues, sessionVars, protVars, mergeVars,
                 statusVars, prVars>>

\* ------------------------------------------------------------------------
\* Claims about mergePr (checked under SpecMerge)
\* ------------------------------------------------------------------------
\* the PUTs of the guessing sequence: the log without the detected attempt
GuessLog ==
  IF mergeMethod = Undefined \/ mergeLog = <<>> THEN mergeLog ELSE Tail(mergeLog)

\* C4: with rebase detected and the rebase PUT answered 405, the call does
\* not end there with false, and the next PUT it sends uses squash.
C4_SquashAfterRebase405 ==
  (mergeMethod = "rebase" /\ Len(mergeLog) >= 1 /\ mergeLog[1].code = 405)
    => /\ ~(Len(mergeLog) = 1 /\ mergeResult = "false")
       /\ Len(mergeLog) >= 2 => mergeLog[2].method = "squash"

C6_EachMethodAtMostOnce ==
  \A i, j \in 1..Len(mergeLog) : i # j => mergeLog[i].method # mergeLog[j].method

\* C7: if the PUT with the detected method fails with anything but 404 or
\* 405, the call returns false and sends no further PUT.
C7_OtherErrorAborts ==
  (mergeMethod # Undefined /\ Len(mergeLog) >= 1
     /\ mergeLog[1].code \notin {200, 404, 405})
    => /\ Len(mergeLog) = 1
       /\ mergePc = "idle"
       /\ mergeResult = "false"

\* C7 witness: the detected squash attempt answered 500 and the call is over.
C7_Witness ==
  /\ mergeMethod = "squash"
  /\ mergeLog = <<MergeReq("squash", 500)>>
  /\ mergeResult = "false"

C10_BranchStatusFunction ==
  LET s == stInput.state
      n == stInput.nStatuses
      runs == stInput.runs
      anyFailed == \E i \in 1..Len(runs) : runs[i] = "failure"
      allPassed == \A i \in 1..Len(runs) : runs[i] \in {"skipped", "neutral", "success"}
  IN stResult \in {"green", "yellow", "red"} =>
       /\ Len(runs) = 0 =>
            /\ s = "success" => stResult = "green"
            /\ s = "failure" => stResult = "red"
            /\ s \notin {"success", "failure"} => stResult = "yellow"
       /\ Len(runs) > 0 =>
            /\ (s = "failure" \/ anyFailed) => stResult = "red"
            /\ (~(s = "failure" \/ anyFailed) /\ (s = "success" \/ n = 0) /\ allPassed)
                 => stResult = "green"
            /\ (~(s = "failure" \/ anyFailed) /\ ~((s = "success" \/ n = 0) /\ allPassed))
                 => stResult = "yellow"
       /\ (s = "pending" /\ n >= 1 /\ Len(runs) > 0
             /\ \A i \in 1..Len(runs) : runs[i] = "success") => stResult = "yellow"

\* C10 witness: legacy pending with one status and all check-runs success
\* came out yellow.
C10_Witness ==
  /\ stResult = "yellow"
  /\ stInput.state = "pending"
  /\ stInput.nStatuses >= 1
  /\ Len(stInput.runs) > 0
  /\ \A i \in 1..Len(stInput.runs) : stInput.runs[i] = "success"

\* ------------------------------------------------------------------------
\* Claims about ensureIssue (checked under SpecIssue)
\* ------------------------------------------------------------------------
\* the write requests (close, patch, create) among reqs
IssueWrites(reqs) == SelectSeq(reqs, LAMBDA r : r.op \in {"close", "patch", "create"})

\* C1: after an ensureIssue call that succeeded (default once and
\* shouldReOpen), a second call with the same arguments in the same session,
\* nobody else having changed the remote, issues no write; the two calls
\* together issue at most one create-or-update request.
C1_SecondCallIsNoOp ==
  (issueLast.called /\ ~issueLast.failed
     /\ ~issueLast.args.once /\ issueLast.args.shouldReOpen)
    => /\ IssueWrites(EnsureIssueCall(issueLast.args, "none").reqs) = <<>>
       /\ Len(SelectSeq(issueLast.reqs, LAMBDA r : r.op \in {"patch", "create"})) <= 1

\* the list shows issue `number` with the title and state it has on the remote
ListShowsIssue(list, number) ==
  \E k \in 1..Len(list) :
    /\ list[k].number = number
    /\ list[k].title = remoteIssues[number].title
    /\ list[k].state = remoteIssues[number].state

\* C15: after an ensureIssue call, the issue list that the next getIssueList,
\* findIssue or ensureIssue of the session works on shows every issue the
\* call created, patched or closed with its new title and state.
C15_IssueListFollowsWrites ==
  issueLast.called =>
    \A k \in 1..Len(issueLast.reqs) :
      LET r == issueLast.reqs[k]
          list == GetIssueListOn(issueList, remoteIssues)
      IN /\ (r.ok /\ r.op \in {"patch", "close"}) => ListShowsIssue(list, r.number)
         /\ (r.ok /\ r.op = "create") => ListShowsIssue(list, Len(remoteIssues))

\* the issues of the list the call worked on that match: by title, or, when
\* none has the title, by reuseTitle
SeenMatches ==
  LET byTitle == {k \in 1..Len(issueLast.seen) :
                    issueLast.seen[k].title = issueLast.args.title}
      byReuse == {k \in 1..Len(issueLast.seen) :
                    issueLast.seen[k].title = issueLast.args.reuseTitle}
  IN IF byTitle # {} THEN byTitle ELSE byReuse

IssueReqsOf(op) == SelectSeq(issueLast.reqs, LAMBDA r : r.op = op)

\* C23: ensureIssue issues a create request only when no issue of the issue
\* list matches title or reuseTitle.
C23_CreateOnlyWithoutMatch ==
  (issueLast.called /\ IssueReqsOf("create") # <<>>) => SeenMatches = {}

\* C24: when at least one issue matches, none of the matches is open and
\* once is true, ensureIssue issues no write and returns nothing.
C24_OnceLeavesClosedIssue ==
  (/\ issueLast.called /\ issueLast.args.once
   /\ SeenMatches # {}
   /\ \A k \in SeenMatches : issueLast.seen[k].state # "open")
    => /\ IssueWrites(issueLast.reqs) = <<>>
       /\ issueLast.result = Null

\* a call with once found its only match closed, by reuseTitle
C24_Witness ==
  /\ issueLast.called /\ issueLast.args.once /\ ~issueLast.failed
  /\ SeenMatches # {}
  /\ \A k \in SeenMatches :
       issueLast.seen[k].state = "closed" /\ issueLast.seen[k].title = "R"
  /\ issueLast.result = Null

\* C25: a call of ensureIssue in which a request failed (the list query, a
\* duplicate close, the body fetch, the patch, the create) returns nothing;
\* it returns 'created' only after a create that succeeded and 'updated'
\* only after a patch that succeeded.
C25_FailureReturnsNothing ==
  issueLast.called =>
    /\ (\E k \in 1..Len(issueLast.reqs) : ~issueLast.reqs[k].ok)
         => issueLast.result = Null
    /\ issueLast.result = "created"
         => \E k \in 1..Len(issueLast.reqs) :
              issueLast.reqs[k].op = "create" /\ issueLast.reqs[k].ok
    /\ issueLast.result = "updated"
         => \E k \in 1..Len(issueLast.reqs) :
              issueLast.reqs[k].op = "patch" /\ issueLast.reqs[k].ok
    /\ issueLast.result \in {Null, "created", "updated"}

\* the create request failed and the call returned nothing
C25_Witness ==
  /\ issueLast.called /\ issueLast.result = Null
  /\ \E k \in 1..Len(issueLast.reqs) :
       issueLast.reqs[k].op = "create" /\ ~issueLast.reqs[k].ok

\* ------------------------------------------------------------------------
\* Claims about getBranchPr
\* ------------------------------------------------------------------------
PrReqsOf(reqs, op) == SelectSeq(reqs, LAMBDA r : r.op = op)

\* the last getBranchPr call found no open PR on its branch but a closed one
\* whose title ends with ' - autoclosed'
FoundAutoclosed ==
  /\ brLast.called /\ ~brLast.hit /\ prList.cached
  /\ FindPr(prList.items, brLast.branchName, "open", forkMode, repository).number = 0
  /\ EndsWith(FindPr(prList.items, brLast.branchName, "closed", forkMode,
                     repository).title, AutoclosedSuffix)

\* C9: when getBranchPr finds no open PR on the branch but a closed PR whose
\* title ends with ' - autoclosed', then: closed more than 604,800,000 ms ago,
\* it returns nothing and sends neither a ref creation nor a reopen; closed
\* less than that ago, it sends one ref creation for the branch at the PR's
\* commit and, that done, one PATCH of that PR with state open and the old
\* title less the ' - autoclosed' suffix.
C9_AutoclosedReopen ==
  LET item    == FindPr(prList.items, brLast.branchName, "closed", forkMode, repository)
      refs    == PrReqsOf(brLast.reqs, "ref")
      patches == PrReqsOf(brLast.reqs, "patch")
  IN FoundAutoclosed =>
       /\ brLast.ago > 604800000 =>
            brLast.result = NoPr /\ refs = <<>> /\ patches = <<>>
       /\ brLast.ago < 604800000 =>
            /\ Len(refs) = 1
            /\ refs[1].ref = brLast.branchName
            /\ refs[1].sha = ShaOf(item.number)
            /\ refs[1].ok =>
                 /\ Len(patches) = 1
                 /\ patches[1].number = item.number
                 /\ patches[1].state = "open"
                 /\ patches[1].title \o AutoclosedSuffix = item.title

\* a PR closed just under the threshold ago was reopened as 'Update dep'
C9_Witness ==
  /\ FoundAutoclosed
  /\ brLast.ago < 604800000
  /\ PrReqsOf(brLast.reqs, "patch") # <<>>
  /\ PrReqsOf(brLast.reqs, "patch")[1].ok
  /\ PrReqsOf(brLast.reqs, "patch")[1].title = PlainTitle
  /\ brLast.result.state = "open"

\* C16: in fork mode every pull-request request of getBranchPr (the listing,
\* the queries, the direct fetch and the reopen PATCH; not the branch ref,
\* which belongs to the fork) is addressed to the parent repository.
C16_ForkModeAddressesParent ==
  (forkMode /\ brLast.called)
    => \A k \in 1..Len(brLast.reqs) :
         brLast.reqs[k].op # "ref" => brLast.reqs[k].repo = parentRepo

\* ------------------------------------------------------------------------
\* Claims about findPr and getPrList
\* ------------------------------------------------------------------------
\* the states a filter accepts, spelled out
Accepts(state, filter) ==
  CASE filter = "all" -> TRUE
    [] filter = "open" -> state = "open"
    [] filter = "closed" -> state = "closed"
    [] filter = "!closed" -> state \in {"open", "merged"}
    [] OTHER -> FALSE

\* the list entry satisfies every condition of the last findPr call
Satisfies(p) ==
  /\ p.sourceBranch = prLast.branchName
  /\ (prLast.prTitle = <<>> \/ p.title = prLast.prTitle)
  /\ Accepts(p.state, prLast.state)
  /\ (forkMode \/ p.sourceRepo = repository)

\* C11: findPr returns the first entry of the session's PR list with the
\* requested branch, the requested title if one is given, a state the filter
\* accepts and, outside fork mode, the session's repository as source
\* repository; and nothing when no entry satisfies all of these.
C11_FindPrFirstMatch ==
  (prLast.op = "findPr" /\ ~prLast.raised)
    => LET sat == {k \in 1..Len(prList.items) : Satisfies(prList.items[k])}
       IN IF sat = {}
          THEN prLast.item = NoItem
          ELSE prLast.item = prList.items[CHOOSE k \in sat : \A j \in sat : k <= j]

\* findPr with '!closed' passed over a closed PR of the branch and returned
\* the merged one after it
C11_Witness ==
  /\ prLast.op = "findPr" /\ prLast.state = "!closed"
  /\ Len(prList.items) >= 2
  /\ prList.items[1].sourceBranch = prLast.branchName
  /\ prList.items[1].state = "closed"
  /\ prLast.item = prList.items[2]
  /\ prLast.item.state = "merged"

\* C12: every record getPrList returns for a PR that is closed on the remote
\* with a merge timestamp has state merged; every other record has the
\* remote state.
C12_MergedClassification ==
  (prLast.op = "getPrList" /\ ~prLast.raised)
    => \A k \in 1..Len(prLast.list) :
         LET r == remotePrs[prLast.list[k].number]
         IN prLast.list[k].state =
              IF r.state = "closed" /\ r.merged THEN "merged" ELSE r.state

\* getPrList returned a merged and a closed record
C12_Witness ==
  /\ prLast.op = "getPrList" /\ ~prLast.raised
  /\ \E k \in 1..Len(prLast.list) : prLast.list[k].state = "merged"
  /\ \E k \in 1..Len(prLast.list) : prLast.list[k].state = "closed"

\* ------------------------------------------------------------------------
\* Claims about the pull-request caches
\* ------------------------------------------------------------------------
\* the last call was an updatePr with a state that the remote accepted
StatusChanged ==
  /\ prLast.op = "updatePr" /\ prLast.state # ""
  /\ prLast.reqs[1].ok

IsOpen(state) == state = "open"

\* C13: after an updatePr that set the state of a pull request, the getPr,
\* getPrList and findPr calls that follow report that PR as open exactly
\* when it is open on the remote.
C13_ReadsReflectOwnMutation ==
  StatusChanged =>
    LET n == prLast.number
        g == GetPrOn("none", n, openPrList, closedPrList, remotePrs, remoteComments)
        l == GetPrListOn("none", prList, remotePrs)
        found == FindPrTitled(l.list.items, remotePrs[n].branch, NoTitle, "open",
                              forkMode, repository)
    IN /\ IsOpen(g.pr.state) = IsOpen(remotePrs[n].state)
       /\ \A k \in 1..Len(l.list.items) :
            l.list.items[k].number = n
              => IsOpen(l.list.items[k].state) = IsOpen(remotePrs[n].state)
       /\ found.number = n => IsOpen(remotePrs[n].state)

\* C14: after an updatePr that closed the pull request of a branch, a
\* getBranchPr for that branch which answers from the per-branch pointer does
\* not return that PR as open.
C14_BranchPointerNotStale ==
  (StatusChanged /\ prLast.state = "closed")
    => \A b \in Branches :
         (branchPrs[b] # NoPr /\ branchPrs[b].number = prLast.number)
           => ~IsOpen(GetBranchPrCall(b, REOPEN_THRESHOLD_MILLIS, "none").result.state)

\* ------------------------------------------------------------------------
\* Claims about ensureComment
\* ------------------------------------------------------------------------
CommentWrites(reqs) == SelectSeq(reqs, LAMBDA r : r.op \in {"add", "edit"})

\* C2: after an ensureComment call with a topic that succeeded, the same call
\* again issues no write, the call itself issued at most one write, and a
\* further call with the same number and topic but changed content issues
\* exactly one edit and no create; whether or not the number is in the
\* session's closed-PR list.
C2_SecondCallNoWriteThirdEdits ==
  (cmLast.called /\ cmLast.result = "true" /\ cmLast.args.topic # Null)
    => /\ Len(CommentWrites(cmLast.reqs)) <= 1
       /\ CommentWrites(EnsureCommentCall(cmLast.args, "none").reqs) = <<>>
       /\ \A y \in CommentContents \ {cmLast.args.content} :
            LET w == CommentWrites(
                       EnsureCommentCall([cmLast.args EXCEPT !.content = y], "none").reqs)
            IN Len(w) = 1 /\ w[1].op = "edit"

\* the requests of the last call that are its own: the read of the comments
\* and the writes
OwnCommentReqs ==
  SelectSeq(cmLast.reqs, LAMBDA r : r.op \in {"comments", "add", "edit"})

\* C26: ensureComment returns true when it created or updated the comment
\* or found it up to date, and returns false, without raising, whenever the
\* read of the comments or a write fails.
C26_FalseOnEveryError ==
  (cmLast.called /\ cmLast.op = "ensureComment") =>
    /\ cmLast.result \in {"true", "false"}
    /\ cmLast.result = "false"
         <=> \E k \in 1..Len(OwnCommentReqs) : ~OwnCommentReqs[k].ok

\* the body `content` is what trimming `body` leaves
TrimsTo(body, content) ==
  /\ content # <<>>
  /\ content[1] \notin WhiteSpace /\ content[Len(content)] \notin WhiteSpace
  /\ \E i \in 1..Len(body) :
       /\ i + Len(content) - 1 <= Len(body)
       /\ SubSeq(body, i, i + Len(content) - 1) = content
       /\ \A j \in 1..Len(body) :
            (j < i \/ j > i + Len(content) - 1) => body[j] \in WhiteSpace

\* the places, in the list the last call was served, of the comments it is
\* to remove
RemovalTargets ==
  {k \in 1..Len(cmLast.seen) :
     IF cmLast.args.topic # Null
     THEN StartsWith(cmLast.seen[k].body, Header(cmLast.args.topic))
     ELSE TrimsTo(cmLast.seen[k].body, cmLast.args.content)}

CommentDeletes == SelectSeq(cmLast.reqs, LAMBDA r : r.op = "delete")

\* C27: a call of ensureCommentRemoval that got the comments issues at most
\* one delete, for the first comment in list order that matches (with a
\* topic: the body starts with the topic's header; without one: the trimmed
\* body equals the content); when none matches it issues no delete and
\* completes without error.
C27_RemovesFirstMatchOnly ==
  (cmLast.called /\ cmLast.op = "ensureCommentRemoval" /\ cmLast.result # "raised") =>
    /\ Len(CommentDeletes) <= 1
    /\ RemovalTargets = {} => CommentDeletes = <<>>
    /\ RemovalTargets # {} =>
         /\ Len(CommentDeletes) = 1
         /\ \E k \in RemovalTargets :
              /\ \A j \in RemovalTargets : k <= j
              /\ CommentDeletes[1].number = cmLast.seen[k].id
    /\ cmLast.result = "done"

\* two comments match the content once trimmed, and the first was deleted
C27_Witness ==
  /\ cmLast.called /\ cmLast.op = "ensureCommentRemoval"
  /\ cmLast.args.topic = Null /\ cmLast.args.content = <<"x">>
  /\ Len(cmLast.seen) = 2
  /\ cmLast.seen[1].body = <<"x", "\n">> /\ cmLast.seen[2].body = <<"x">>
  /\ Len(CommentDeletes) = 1 /\ CommentDeletes[1].ok
  /\ CommentDeletes[1].number = cmLast.seen[1].id
  /\ Len(remoteComments[1]) = 1

\* the ids of the comments, among those the last call was served, that read
\* as created with a topic and the content x
TopicCommentIds(x) ==
  {cmLast.seen[k].id :
     k \in {j \in 1..Len(cmLast.seen) :
              \E t \in CommentTopics : cmLast.seen[j].body = Header(t) \o x}}

\* C3: an ensureComment call without a topic and with content x that succeeds
\* does not match a comment whose body is the header of a topic followed by x,
\* edits nothing, and, unless a comment whose whole body is x was there,
\* creates one comment with body x.
C3_ContentOnlySkipsTopicComments ==
  (cmLast.called /\ cmLast.args.topic = Null /\ cmLast.result = "true")
    => /\ cmLast.commentId \notin TopicCommentIds(cmLast.args.content)
       /\ \A k \in 1..Len(cmLast.reqs) : cmLast.reqs[k].op # "edit"
       /\ (\A k \in 1..Len(cmLast.seen) : cmLast.seen[k].body # cmLast.args.content)
            => /\ Len(CommentWrites(cmLast.reqs)) = 1
               /\ CommentWrites(cmLast.reqs)[1].op = "add"
               /\ CommentWrites(cmLast.reqs)[1].body = cmLast.args.content

\* a content-only call with x met the comment of topic "t" with content x and
\* created its own
C3_Witness ==
  /\ cmLast.called /\ cmLast.args.topic = Null /\ cmLast.result = "true"
  /\ cmLast.args.content = <<"x">>
  /\ TopicCommentIds(<<"x">>) # {}
  /\ CommentWrites(cmLast.reqs) # <<>>
  /\ CommentWrites(cmLast.reqs)[1].op = "add"
  /\ \E k \in 1..Len(remoteComments[1]) : remoteComments[1][k].body = <<"x">>

\* ------------------------------------------------------------------------
\* Specifications
\* ------------------------------------------------------------------------
InitMerge ==
  SessionInit /\ MethodInit /\ ProtInit /\ MergeInit /\ ToolIdle /\ StatusInit /\ IssueIdle /\ PrIdle
NextMerge == GetRepoForceRebase \/ MergePrBegin \/ MergePrDetected \/ MergePrGuess
SpecMerge == InitMerge /\ [][NextMerge]_vars

InitStatus ==
  SessionInit /\ MethodIdle /\ ProtInit /\ MergeInit /\ ToolIdle /\ StatusInit /\ IssueIdle /\ PrIdle
NextStatus == GetBranchStatusBegin \/ GetBranchStatusRuns
SpecStatus == InitStatus /\ [][NextStatus]_vars

InitIssue ==
  SessionNoFork /\ MethodIdle /\ ProtInit /\ MergeInit /\ ToolIdle /\ StatusInit /\ IssueInit /\ PrIdle
NextIssue == EnsureIssue \/ OtherTogglesIssue
SpecIssue == InitIssue /\ [][NextIssue]_vars

InitBranchPr ==
  SessionInit /\ MethodIdle /\ ProtInit /\ MergeInit /\ ToolIdle /\ StatusInit /\ IssueIdle /\ PrInit
NextBranchPr == GetBranchPr
SpecBranchPr == InitBranchPr /\ [][NextBranchPr]_vars

InitFindPr ==
  SessionInit /\ MethodIdle /\ ProtInit /\ MergeInit /\ ToolIdle /\ StatusInit /\ IssueIdle /\ PrInit
NextFindPr == GetPrList \/ FindPrOp
SpecFindPr == InitFindPr /\ [][NextFindPr]_vars

InitPrCache ==
  SessionInit /\ MethodIdle /\ ProtInit /\ MergeInit /\ ToolIdle /\ StatusInit /\ IssueIdle
    /\ OnePrInit
NextPrCache == GetPrList \/ GetPr \/ UpdatePr \/ GetBranchPr
SpecPrCache == InitPrCache /\ [][NextPrCache]_vars

InitComment ==
  SessionInit /\ MethodIdle /\ ProtInit /\ MergeInit /\ ToolIdle /\ StatusInit /\ IssueIdle
    /\ CommentInit
NextComment == EnsureComment
SpecComment == InitComment /\ [][NextComment]_vars

\* ------------------------------------------------------------------------
\* Claims about setBranchStatus (checked under SpecSetStatus)
\* ------------------------------------------------------------------------
\* the status POSTs of the last setBranchStatus call
StatusPosts == SelectSeq(sbLast.reqs, LAMBDA r : r.op = "post")

\* the status the remote showed for the call's context when the call began:
\* that of the newest status with this context
ShownBefore ==
  LET hits == {i \in 1..Len(sbLast.before) : sbLast.before[i].context = sbLast.context}
      first == CHOOSE i \in hits : \A j \in hits : i <= j
      st == sbLast.before[first].state
  IN IF hits = {} THEN Null
     ELSE IF st = "success" THEN "green"
     ELSE IF st \in {"error", "failure"} THEN "red"
     ELSE "yellow"

\* C21 as stated: no request at all in fork mode, no POST when the status
\* of (branchName, context) equals the desired state, and exactly one POST
\* in every other case.
C21_OnePostInEveryOtherCase ==
  sbLast.called =>
    /\ parentRepo # Null => sbLast.reqs = <<>>
    /\ (parentRepo = Null /\ ShownBefore = sbLast.state) => Len(StatusPosts) = 0
    /\ (parentRepo = Null /\ ShownBefore # sbLast.state) => Len(StatusPosts) = 1

\* C21: setBranchStatus issues no request in fork mode, and no POST when the
\* status of (branchName, context) equals the desired state or cannot be
\* read; when it was read and differs, it issues exactly one POST.
C21_PostOnlyWhenStatusDiffers ==
  sbLast.called =>
    LET read == sbLast.reqs # <<>> /\ sbLast.reqs[1].ok IN
    /\ parentRepo # Null => sbLast.reqs = <<>>
    /\ (parentRepo = Null /\ ShownBefore = sbLast.state) => Len(StatusPosts) = 0
    /\ (parentRepo = Null /\ ~read) => Len(StatusPosts) = 0
    /\ (parentRepo = Null /\ read /\ ShownBefore # sbLast.state)
         => Len(StatusPosts) = 1

\* the remote showed 'error', red was asked for, and nothing was posted
C21_Witness ==
  /\ sbLast.called /\ parentRepo = Null
  /\ sbLast.state = "red" /\ ShownBefore = "red"
  /\ \E i \in 1..Len(sbLast.before) :
       /\ sbLast.before[i] = [context |-> sbLast.context, state |-> "error"]
       /\ \A j \in 1..(i - 1) : sbLast.before[j].context # sbLast.context
  /\ Len(sbLast.reqs) = 1 /\ sbLast.reqs[1].ok

\* C22: whenever a request of setBranchStatus fails (the read of the current
\* status, the POST, a refreshing read) the call raises, and what it raises
\* is the repository-changed error.
C22_EveryFailureIsRepositoryChanged ==
  sbLast.called =>
    /\ (\E i \in 1..Len(sbLast.reqs) : ~sbLast.reqs[i].ok) => sbLast.raised
    /\ sbLast.raised => sbLast.error = REPOSITORY_CHANGED

\* ------------------------------------------------------------------------
\* Claims about initRepo (checked under SpecInit and SpecSession)
\* ------------------------------------------------------------------------
\* The message the metadata answer `m` is to be classified as, taking the
\* cases in the order given; <<>> where the failure is to be passed on as it
\* is, or where there is no failure.
ClassifiedAs(m) ==
  IF m.ok
  THEN IF ~m.repo.defaultBranch THEN REPOSITORY_EMPTY
       ELSE IF m.repo.nameWithOwner \notin {Null, RepoName} THEN REPOSITORY_RENAMED
       ELSE IF m.repo.isArchived THEN REPOSITORY_ARCHIVED
       ELSE <<>>
  ELSE IF m.error.statusCode = 403 THEN REPOSITORY_ACCESS_FORBIDDEN
       ELSE IF m.error.statusCode = 404 THEN REPOSITORY_NOT_FOUND
       ELSE IF StartsWith(m.error.message, AccessBlockedPrefix) THEN REPOSITORY_BLOCKED
       ELSE IF m.error.statusCode = 451 THEN REPOSITORY_ACCESS_FORBIDDEN
       ELSE <<>>

C19_MergeMethodPriority ==
  (initLast.called /\ ~initLast.raised) =>
    LET r == initLast.meta.repo IN
    /\ r.rebaseMergeAllowed => mergeMethod = "rebase"
    /\ (~r.rebaseMergeAllowed /\ r.squashMergeAllowed) => mergeMethod = "squash"
    /\ (~r.rebaseMergeAllowed /\ ~r.squashMergeAllowed /\ r.mergeCommitAllowed)
         => mergeMethod = "merge"
    /\ (~r.rebaseMergeAllowed /\ ~r.squashMergeAllowed /\ ~r.mergeCommitAllowed)
         => mergeMethod = Undefined

\* all three are allowed and the session merges by rebase
C19_Witness ==
  /\ initLast.called /\ ~initLast.raised
  /\ initLast.meta.repo.rebaseMergeAllowed
  /\ initLast.meta.repo.squashMergeAllowed
  /\ initLast.meta.repo.mergeCommitAllowed
  /\ mergeMethod = "rebase"

\* an operation other than initRepo has acted
SessionOpActed ==
  \/ issueLast.called \/ brLast.called \/ prLast.op # "none"
  \/ repoForceRebase # Undefined

\* C17: no operation after initRepo changes config.repository or
\* config.parentRepo: they are what initRepo left; and once initRepo has
\* returned, config.parentRepo is set iff fork mode was requested, and is then
\* the repository that was requested.
C17_RepositoryFixedInSession ==
  initLast.called =>
    /\ repository = initLast.repository
    /\ parentRepo = initLast.parentRepo
    /\ ~initLast.raised =>
         /\ (parentRepo # Null) <=> initLast.forkMode
         /\ parentRepo # Null => parentRepo = RepoName

\* a fork-mode session in which an operation has acted
C17_Witness ==
  /\ initLast.called /\ ~initLast.raised /\ initLast.forkMode
  /\ parentRepo = RepoName /\ repository = ForkName
  /\ SessionOpActed

\* what the next reads answer is what the remote holds
ReadsAskRemote ==
  /\ GetPrListOn("none", prList, remotePrs).list.items
       = FetchPrList(remotePrs, forkMode)
  /\ GetPrListOn("none", prList, remotePrs).reqs # <<>>
  /\ \A b \in Branches :
       GetBranchPrCall(b, REOPEN_THRESHOLD_MILLIS, "none").reqs # <<>>
  /\ GetIssueListOn(issueList, remoteIssues)
       = IF hasIssuesEnabled THEN GetIssues(remoteIssues) ELSE <<>>

\* initRepo has returned and no operation has asked the remote since
JustInitialised ==
  /\ initLast.called /\ ~initLast.raised
  /\ ~issueLast.called /\ ~brLast.called /\ prLast.op = "none"
  /\ bpRequests = 0

\* C20: a successful initRepo leaves the issue list, the PR list, the open
\* and closed PR maps and the per-branch PRs empty, so that the reads that
\* follow ask the remote; and the derived flags (force-rebase,
\* reviews-required, push-protected) are undefined until they are derived
\* anew, which in fork mode takes no request and gives false for each.
C20_InitRepoEmptiesCaches ==
  JustInitialised =>
    /\ ~issueList.cached /\ issueList.items = <<>>
    /\ ~prList.cached /\ prList.items = <<>>
    /\ ~openPrList.cached /\ openPrList.items = <<>>
    /\ ~closedPrList.cached /\ closedPrList.items = <<>>
    /\ \A b \in Branches : branchPrs[b] = NoPr
    /\ ReadsAskRemote
    /\ repoForceRebase \in (IF parentRepo = Null THEN {Undefined}
                             ELSE {Undefined, "false"})
    /\ prReviewsRequired = FALSE
    /\ pushProtection = FALSE

\* initRepo has returned in a session whose caches were all filled
C20_Witness ==
  /\ JustInitialised /\ initLast.hadCaches
  /\ ~prList.cached /\ repoForceRebase = Undefined

\* the steps of the last initRepo call
InitSteps == {initLast.reqs[k] : k \in 1..Len(initLast.reqs)}

\* the last initRepo call was asked for fork mode and its fork request
\* succeeded
ForkRequestSucceeded ==
  /\ initLast.called /\ initLast.forkMode
  /\ "fork" \in InitSteps
  /\ initLast.reqs[Len(initLast.reqs)] # "fork"

\* whether the fork was in the listing the call worked with: the one the
\* process held, or else the one the call fetched
ForkWasListed ==
  IF initLast.listing.fetched THEN initLast.listing.hasFork ELSE initLast.listed

\* C28: when the fork request of a fork-mode initRepo succeeds and the fork
\* is in the repository listing, the update of the fork's default-branch ref
\* is the last request before initRepo returns; if that update fails,
\* initRepo raises a host error and hands back no result.
C28_ExistingForkIsUpdated ==
  (ForkRequestSucceeded /\ ForkWasListed) =>
    /\ initLast.reqs[Len(initLast.reqs)] = "updateRef"
    /\ initLast.failed = "update" =>
         /\ initLast.raised
         /\ initLast.error = ExternalHostError
         /\ initLast.result = NoResult
    /\ initLast.failed = "none" =>
         ~initLast.raised /\ initLast.result = RepoResult

\* the update of an existing fork failed and initRepo raised the host error
C28_Witness ==
  /\ ForkRequestSucceeded /\ ForkWasListed
  /\ initLast.failed = "update"
  /\ initLast.raised /\ initLast.error = ExternalHostError
  /\ initLast.reqs[Len(initLast.reqs)] = "updateRef"

\* C29: a fork-mode initRepo whose fork request succeeds does exactly one of
\* two things after it: it waits the 30 s delay iff the fork is not in the
\* repository listing, and it updates the fork's default-branch ref iff the
\* fork is in the listing.
C29_DelayOrUpdate ==
  ForkRequestSucceeded =>
    /\ ("delay" \in InitSteps) <=> ~ForkWasListed
    /\ ("updateRef" \in InitSteps) <=> ForkWasListed
    /\ Len(SelectSeq(initLast.reqs, LAMBDA r : r \in {"delay", "updateRef"})) = 1

\* a fork that the fetched listing did not hold was created and waited for
C29_Witness ==
  /\ ForkRequestSucceeded /\ ~ForkWasListed
  /\ "repos" \in InitSteps /\ "delay" \in InitSteps
  /\ ~initLast.raised

\* C30: a fork-mode initRepo fetches the repository listing only when the
\* process holds none, and a listing once held stays; after a fork was
\* created it is in the listing, so that the next fork-mode initRepo, without
\* listing again, updates the fork instead of waiting for it.
C30_ListingFetchedOnce ==
  initLast.called =>
    /\ initLast.listing.fetched =>
         ("repos" \notin InitSteps /\ existingRepos.fetched)
    /\ "repos" \in InitSteps =>
         (initLast.forkMode /\ Len(SelectSeq(initLast.reqs, LAMBDA r : r = "repos")) = 1)
    /\ (initLast.listing.fetched /\ initLast.listing.hasFork) => existingRepos.hasFork
    /\ ForkRequestSucceeded =>
         /\ existingRepos.fetched /\ existingRepos.hasFork
         /\ \A m \in {x \in MetaResponses : MetaThrown(x) = NoError} :
              LET next == InitRepoCall(m, TRUE, FALSE, "same", "none").reqs
              IN next = <<"graphql", "fork", "updateRef">>

\* a fork-mode initRepo that found the listing and, in it, the fork that an
\* earlier one had created
C30_Witness ==
  /\ ForkRequestSucceeded /\ ~initLast.raised
  /\ initLast.listing.fetched /\ initLast.listing.hasFork
  /\ "repos" \notin InitSteps /\ "updateRef" \in InitSteps

\* initRepo alone, against every answer of the metadata query
InitInit ==
  SessionNoFork /\ MethodIdle /\ ProtInit /\ MergeInit /\ ToolIdle /\ StatusInit /\ IssueIdle
    /\ PrIdle
NextInit == InitRepo
SpecInit == InitInit /\ [][NextInit]_vars

\* ensureCommentRemoval on a pull request with comments
InitRemoval ==
  SessionInit /\ MethodIdle /\ ProtInit /\ MergeInit /\ ToolIdle /\ StatusInit /\ IssueIdle
    /\ RemovalInit
NextRemoval == EnsureCommentRemoval
SpecRemoval == InitRemoval /\ [][NextRemoval]_vars

\* setBranchStatus, in fork mode and out of it
InitSetStatus ==
  SessionInit /\ MethodIdle /\ ProtInit /\ MergeInit /\ ToolIdle /\ SetStatusInit /\ IssueIdle
    /\ PrIdle
NextSetStatus == SetBranchStatus
SpecSetStatus == InitSetStatus /\ [][NextSetStatus]_vars

\* sessions one after the other in one process
InitSession ==
  SessionInit /\ MethodIdle /\ ProtInit /\ MergeInit /\ ToolIdle /\ StatusInit
    /\ SessionRemoteInit
NextSession ==
  \/ InitRepoSession
  \/ Ready /\ GetRepoForceRebaseSession
  \/ Ready /\ GetIssueList
  \/ Ready /\ GetPrList
  \/ Ready /\ GetBranchPr
SpecSession == InitSession /\ [][NextSession]_vars

\* ------------------------------------------------------------------------
\* The Cargo updater: updateArtifacts (lib/manager/cargo/artifacts; the
\* contract of spec section 6 and the cases of artifacts.spec.ts).  The
\* file system, git and the cargo command are the environment: which
\* directories hold a Cargo.lock, what the lockfile held before and holds
\* after the update, and which step fails.
\* ------------------------------------------------------------------------
\* directories of the package file, as paths from the repository root
CargoDirs == {<<>>, <<"crates", "one">>}
AllDirs == {<<>>, <<"crates">>, <<"crates", "one">>}
LockContents == {"Current Cargo.lock", "New Cargo.lock"}
CargoFailures == {"none", "write", "update"}
CargoMessages == [write |-> "not found", update |-> "cargo failed"]

\* what updateArtifacts returns: null, or a list of artifacts
NullArtifacts == [isNull |-> TRUE, list |-> <<>>]
Artifacts(list) == [isNull |-> FALSE, list |-> list]
\* no lockfile was found
NoLockFile == <<>>

\* the Cargo.lock next to the package file or in the nearest directory above
RECURSIVE FindLockFile(_, _)
FindLockFile(dir, lockDirs) ==
  IF dir \in lockDirs THEN Append(dir, "Cargo.lock")
  ELSE IF dir = <<>> THEN NoLockFile
  ELSE FindLockFile(SubSeq(dir, 1, Len(dir) - 1), lockDirs)

CargoArgs ==
  [dir : CargoDirs, lockDirs : SUBSET AllDirs, nDeps : 0..MaxDeps,
   maintenance : BOOLEAN, old : LockContents, new : LockContents,
   fail : CargoFailures]

CargoEnd(a, lockFile, steps, result, raised) ==
  [called |-> TRUE, args |-> a, lockFile |-> lockFile, steps |-> steps,
   result |-> result, raised |-> raised]

\* a failure of the write or of the update raises out of updateArtifacts
CargoRaises(a, lockFile, steps) ==
  CargoEnd(a, lockFile, steps, NullArtifacts, TRUE)

\* a failure of the write or of the update is reported as an artifactError
CargoCatch(a, lockFile, steps) ==
  CargoEnd(a, lockFile, steps,
           Artifacts(<<[artifactError |->
                          [lockFile |-> lockFile,
                           stderr |-> CargoMessages[a.fail]]]>>),
           FALSE)

\* the lockfile after the update is compared with the one before
CargoCompare(a, lockFile, steps) ==
  IF a.new = a.old
    THEN CargoEnd(a, lockFile, steps, NullArtifacts, FALSE)
    ELSE CargoEnd(a, lockFile, steps,
                  Artifacts(<<[file |-> [name |-> lockFile, contents |-> a.new]]>>),
                  FALSE)

\* one 'cargo update' per updated dependency, one for lockfile maintenance
CargoUpdates(a) ==
  IF a.maintenance THEN <<"update">> ELSE [k \in 1..a.nDeps |-> "update"]

UpdateArtifactsCall(a) ==
  LET lockFile == FindLockFile(a.dir, a.lockDirs) IN
  IF ~a.maintenance /\ a.nDeps = 0
    THEN CargoEnd(a, NoLockFile, <<>>, NullArtifacts, FALSE)
  ELSE IF lockFile = NoLockFile
    THEN CargoEnd(a, NoLockFile, <<>>, NullArtifacts, FALSE)
  ELSE IF a.fail = "write" THEN CargoCatch(a, lockFile, <<"write">>)
  ELSE IF a.fail = "update"
    THEN CargoCatch(a, lockFile, <<"write", "update">>)
  ELSE CargoCompare(a, lockFile, <<"write">> \o CargoUpdates(a))

UpdateArtifacts ==
  /\ ~cargoLast.called
  /\ cargoLast.args \in CargoArgs
  /\ cargoLast' = UpdateArtifactsCall(cargoLast.args)
  /\ UNCHANGED <<exLast, prefetchedImages, pulls, dkPc, qPc, queries, qLast,
                 sessionVars, protVars, mergeVars, statusVars, issueVars, prVars>>

\* the arguments and the environment of the call to come
CargoInit == \E a \in CargoArgs : cargoLast = [NoCargoCall EXCEPT !.args = a]

\* ------------------------------------------------------------------------
\* Claims about updateArtifacts (checked under SpecCargo)
\* ------------------------------------------------------------------------
CargoProceeds ==
  /\ cargoLast.called
  /\ cargoLast.args.maintenance \/ cargoLast.args.nDeps > 0
  /\ cargoLast.lockFile # NoLockFile

\* C31: updateArtifacts returns null when no Cargo.lock is found for the
\* package file, when updatedDeps is empty outside lockfile maintenance, and
\* when the regenerated lockfile equals the existing one; when the write or
\* the update fails it does not raise and returns a one-element list holding
\* an artifactError with the lockfile's name and the error's text.
C31_NullOrArtifactError ==
  cargoLast.called =>
    /\ ~cargoLast.raised
    /\ FindLockFile(cargoLast.args.dir, cargoLast.args.lockDirs) = NoLockFile =>
         cargoLast.result = NullArtifacts
    /\ (cargoLast.args.nDeps = 0 /\ ~cargoLast.args.maintenance) =>
         cargoLast.result = NullArtifacts
    /\ (CargoProceeds /\ cargoLast.args.fail = "none"
          /\ cargoLast.args.new = cargoLast.args.old) =>
         cargoLast.result = NullArtifacts
    /\ (CargoProceeds /\ cargoLast.args.fail # "none") =>
         /\ ~cargoLast.result.isNull
         /\ Len(cargoLast.result.list) = 1
         /\ cargoLast.result.list[1] =
              [artifactError |->
                 [lockFile |-> FindLockFile(cargoLast.args.dir,
                                            cargoLast.args.lockDirs),
                  stderr |-> CargoMessages[cargoLast.args.fail]]]

\* C31 witness: the update failed for a workspace member whose Cargo.lock is
\* at the root, and the call returned the artifactError
C31_Witness ==
  /\ CargoProceeds
  /\ cargoLast.args.fail = "update"
  /\ cargoLast.args.dir = <<"crates", "one">>
  /\ cargoLast.lockFile = <<"Cargo.lock">>
  /\ ~cargoLast.result.isNull

\* updateArtifacts against every file system and outcome of the commands
InitCargo ==
  SessionInit /\ MethodIdle /\ ProtInit /\ MergeInit /\ StatusInit /\ IssueIdle
    /\ PrIdle /\ CargoInit /\ exLast = NoExtractCall /\ prefetchedImages = {}
    /\ pulls = <<>> /\ dkPc = <<>> /\ QueryIdle
NextCargo == UpdateArtifacts
SpecCargo == InitCargo /\ [][NextCargo]_vars

\* ------------------------------------------------------------------------
\* Claims about getPr (checked under SpecGetPr)
\* ------------------------------------------------------------------------
GetPrActed == prLast.op = "getPr"
DirectFetches == PrReqsOf(prLast.reqs, "getpr")
CachedView(items, prNo, from) ==
  LET p == Lookup(items, prNo)[1]
  IN PrView(prNo, p.sourceBranch, p.title, p.state, from)

\* C32: getPr(n) returns the record of n in the open-PR cache if there is
\* one, otherwise the record in the closed-PR cache if there is one, and
\* issues the direct REST fetch of the single PR only when n is in neither;
\* a falsy number returns null without any request.
C32_OpenThenClosedThenFetch ==
  GetPrActed =>
    /\ prLast.number = 0 =>
         prLast.view = NoPr /\ prLast.reqs = <<>> /\ ~prLast.raised
    /\ (prLast.number # 0 /\ Lookup(openPrList.items, prLast.number) # <<>>) =>
         /\ prLast.view = CachedView(openPrList.items, prLast.number, "open")
         /\ DirectFetches = <<>>
    /\ (prLast.number # 0 /\ Lookup(openPrList.items, prLast.number) = <<>>
          /\ Lookup(closedPrList.items, prLast.number) # <<>>) =>
         /\ prLast.view = CachedView(closedPrList.items, prLast.number, "closed")
         /\ DirectFetches = <<>>
    /\ (prLast.number # 0 /\ Lookup(openPrList.items, prLast.number) = <<>>
          /\ Lookup(closedPrList.items, prLast.number) = <<>>) =>
         /\ Len(DirectFetches) = 1
         /\ prLast.reqs[Len(prLast.reqs)].op = "getpr"
         /\ prLast.view.from \in {"rest", "none"}

\* C32 witness: the PR was closed after the open list was cached, and getPr
\* still returned the open-cache record without a direct fetch
C32_Witness ==
  /\ GetPrActed
  /\ prLast.number # 0
  /\ prLast.number <= Len(remotePrs)
  /\ remotePrs[prLast.number].state = "closed"
  /\ prLast.view.from = "open"
  /\ prLast.reqs = <<>>

\* C32 witness of the fall-back: a PR in neither cache was fetched directly
C32_WitnessFetch ==
  /\ GetPrActed
  /\ prLast.view.from = "rest"
  /\ closedPrList.cached

\* getPr against a pull request that changes on the remote
InitGetPr ==
  SessionInit /\ MethodIdle /\ ProtInit /\ MergeInit /\ ToolIdle /\ StatusInit
    /\ IssueIdle /\ OnePrInit
NextGetPr == GetPr \/ UpdatePr
SpecGetPr == InitGetPr /\ [][NextGetPr]_vars

\* ------------------------------------------------------------------------
\* Claims about the open PRs getOpenPrs materializes (checked under
\* SpecOpenPrs)
\* ------------------------------------------------------------------------
\* open pull requests of the bot in every merge state, with and without a
\* review that requests changes
MergeStatePrs ==
  [branch : {"b1"}, author : {BotName}, sourceRepo : {RepoName},
   state : {"open"}, merged : {FALSE}, closedAt : {0}, title : {PlainTitle},
   mergeState : MergeStates, negativeReviews : {0, 1}]

OpenPrsInit ==
  /\ remotePrs \in SeqUpTo(MergeStatePrs, MaxPrs)
  /\ remoteComments = [k \in 1..Len(remotePrs) |-> <<>>]
  /\ prList = NoCache
  /\ openPrList = NoCache
  /\ closedPrList = NoCache
  /\ branchPrs = [b \in Branches |-> NoPr]
  /\ brLast = NoBranchPrCall
  /\ cmLast = NoCommentCall
  /\ prLast = NoPrCall

\* the conflict flag of every materialized PR is true iff the remote
\* merge state is DIRTY
ConflictIffDirty ==
  \A k \in 1..Len(openPrList.items) :
    openPrList.items[k].isConflicted
      <=> remotePrs[openPrList.items[k].number].mergeState = "DIRTY"

\* the precedence of canMerge, with `forking` deciding the BLOCKED case and
\* reason(mergeState) the reason of the last case
CanMergePrecedence(forking, reason(_)) ==
  \A k \in 1..Len(openPrList.items) :
    LET pr == openPrList.items[k]
        r  == remotePrs[pr.number]
    IN IF r.negativeReviews > 0
         THEN ~pr.canMerge /\ pr.canMergeReason = NegativeReviewReason
       ELSE IF r.mergeState \in CanMergeStates THEN pr.canMerge
       ELSE IF forking /\ r.mergeState = "BLOCKED" THEN pr.canMerge
       ELSE ~pr.canMerge /\ pr.canMergeReason = reason(r.mergeState)

LiteralMergeState(mergeState) == <<mergeState>>

\* C33 as stated: requested changes give false with reason
\* 'hasNegativeReview'; otherwise BEHIND, CLEAN, HAS_HOOKS or UNSTABLE give
\* true; otherwise fork mode and BLOCKED give true; otherwise false with the
\* literal merge state as the reason; conflict flag iff DIRTY.
C33_CanMergeByForkMode ==
  CanMergePrecedence(forkMode, LiteralMergeState) /\ ConflictIffDirty

\* C33 as amended: the BLOCKED case is decided by a fork token being
\* configured, and the reason of the last case is 'mergeStateStatus = '
\* followed by the merge state.
C33_CanMergeByForkToken ==
  CanMergePrecedence(forkToken # Undefined, MergeStateReason) /\ ConflictIffDirty

\* C33 witness: a BLOCKED pull request without negative review was
\* materialized as mergeable under a fork token, next to one that was not
\* mergeable for its merge state
C33_Witness ==
  /\ forkToken # Undefined
  /\ \E k \in 1..Len(openPrList.items) :
       /\ remotePrs[openPrList.items[k].number].mergeState = "BLOCKED"
       /\ remotePrs[openPrList.items[k].number].negativeReviews = 0
       /\ openPrList.items[k].canMerge
  /\ \E k \in 1..Len(openPrList.items) :
       /\ ~openPrList.items[k].canMerge
       /\ openPrList.items[k].canMergeReason = MergeStateReason("DIRTY")
       /\ openPrList.items[k].isConflicted

\* getPr (and with it getOpenPrs) over open pull requests in every merge state
InitOpenPrs ==
  SessionTokenInit /\ MethodIdle /\ ProtInit /\ MergeInit /\ ToolIdle /\ StatusInit
    /\ IssueIdle /\ OpenPrsInit
NextOpenPrs == GetPr
SpecOpenPrs == InitOpenPrs /\ [][NextOpenPrs]_vars

\* ------------------------------------------------------------------------
\* Claims about the author filter of getPrList (checked under SpecFindPr,
\* where config.ignorePrAuthor is not set)
\* ------------------------------------------------------------------------
\* C34: outside fork mode (and without the ignore-PR-author override) every
\* PR of the cached list is authored by the bot, PRs of another or of no
\* known author being excluded; in fork mode every PR of the remote is kept.
C34_OnlyBotAuthored ==
  prList.cached =>
    /\ ~forkMode =>
         \A k \in 1..Len(prList.items) :
           remotePrs[prList.items[k].number].author = BotName
    /\ forkMode => Len(prList.items) = Len(remotePrs)

\* ------------------------------------------------------------------------
\* Claims about the recreation of an autoclosed PR (checked under
\* SpecBranchPr)
\* ------------------------------------------------------------------------
\* the requests end with a ref creation or a reopen PATCH that failed
RecreationFailed(reqs) ==
  /\ reqs # <<>>
  /\ reqs[Len(reqs)].op \in {"ref", "patch"}
  /\ ~reqs[Len(reqs)].ok

\* C35: when the ref creation or the reopen PATCH of getBranchPr's
\* recreation fails, getBranchPr returns nothing without raising and the
\* open-PR cache, the closed-PR cache and the per-branch pointers are as
\* they were before the call; after a failed ref creation no PATCH is sent.
\* Stated of the last call and of every call that can come next.
C35_FailedRecreationIsQuiet ==
  /\ (brLast.called /\ RecreationFailed(brLast.reqs)) =>
       /\ brLast.result = NoPr
       /\ ~brLast.raised
       /\ brLast.reqs[Len(brLast.reqs)].op = "ref" =>
            PrReqsOf(brLast.reqs, "patch") = <<>>
  /\ \A branchName \in Branches, ago \in ClosedAgo, f \in {"ref", "patch"} :
       LET c == GetBranchPrCall(branchName, ago, f)
       IN RecreationFailed(c.reqs) =>
            /\ c.result = NoPr
            /\ ~c.raised
            /\ c.open = openPrList
            /\ c.closed = closedPrList
            /\ c.branchPrs = branchPrs
            /\ c.reqs[Len(c.reqs)].op = "ref" => PrReqsOf(c.reqs, "patch") = <<>>

\* C35 witness: with the open and the closed list cached, the reopen PATCH
\* of the last call failed after its ref creation
C35_Witness ==
  /\ brLast.called
  /\ RecreationFailed(brLast.reqs)
  /\ brLast.reqs[Len(brLast.reqs)].op = "patch"
  /\ PrReqsOf(brLast.reqs, "ref") # <<>>
  /\ brLast.result = NoPr
  /\ openPrList.cached
  /\ openPrList.items # <<>>

\* C36: getBranchPr tries to reopen an autoclosed PR only if it was closed
\* strictly less than 604,800,000 ms ago; closed exactly that long ago (or
\* longer) it sends neither ref creation nor reopen and returns nothing.
C36_ReopenOnlyBelowThreshold ==
  (FoundAutoclosed /\ brLast.ago >= 604800000) =>
    /\ brLast.result = NoPr
    /\ PrReqsOf(brLast.reqs, "ref") = <<>>
    /\ PrReqsOf(brLast.reqs, "patch") = <<>>

\* ------------------------------------------------------------------------
\* Claims about getRepoForceRebase (checked under SpecRebase)
\* ------------------------------------------------------------------------
\* C38: getRepoForceRebase requests branch protection at most once per
\* session and never in fork mode; its first call returns true only if the
\* protection reports strict required status checks; a 404, a 403 or an
\* integration-unauthorized failure gives false without raising; and after
\* any first call, one that raised included, the flag is set and every later
\* call returns it without a request.
C38_ForceRebaseOncePerSession ==
  /\ bpRequests <= 1
  /\ forkMode => bpRequests = 0
  /\ rbLast.called =>
       /\ rbLast.requested => ~forkMode /\ rbLast.first
       /\ (rbLast.first /\ ~forkMode) => rbLast.requested
       /\ (rbLast.first /\ rbLast.result = "true") =>
            rbLast.code = 200 /\ rbLast.strict
       /\ (rbLast.first /\ rbLast.code \in {404, 403, 401}) =>
            rbLast.result = "false" /\ ~rbLast.raised
       /\ rbLast.raised => repoForceRebase = "false"
       /\ ~rbLast.first =>
            /\ ~rbLast.raised
            /\ rbLast.result \in {"true", "false"}
            /\ rbLast.result = repoForceRebase

\* C38 witness: the first call of the session raised on an unexpected
\* error, and the call after it returned false without a second request
C38_Witness ==
  /\ rbLast.called /\ ~rbLast.first /\ rbLast.sawRaise
  /\ rbLast.result = "false"
  /\ ~rbLast.requested
  /\ bpRequests = 1

\* sessions one after the other, getRepoForceRebase against every answer
InitRebase ==
  SessionInit /\ MethodIdle /\ ProtInit /\ MergeInit /\ ToolIdle /\ StatusInit
    /\ SessionRemoteInit
NextRebase ==
  \/ InitRepoSession
  \/ Ready /\ GetRepoForceRebase
SpecRebase == InitRebase /\ [][NextRebase]_vars

\* ------------------------------------------------------------------------
\* getOpenPrs / getClosedPrs with calls that interleave (part_001:517-635).
\* A call runs without interruption up to its await of the graph query and
\* again from the answer to its return; other calls run in between.  The
\* caches are invalidated by the next session's initRepo, which starts when
\* the calls of the session have returned.
\* ------------------------------------------------------------------------
Callers == 1..MaxCallers
ListKinds == {"open", "closed"}

Slot(kind) == IF kind = "open" THEN openPrList ELSE closedPrList
Nodes(kind) ==
  IF kind = "open" THEN OpenPrNodes(remotePrs)
  ELSE ClosedPrNodes(remotePrs, remoteComments)

\* a slot that is left alone until the answer is there
SlotUntouched(slot) == slot

\* config.openPrList = {} (config.closedPrList = {}) before the await
SlotBeforeQuery(slot) == [cached |-> TRUE, items |-> <<>>]

\* config.xPrList[pr.number] = pr for every node: the nodes by number, then
\* what the map held under other numbers
WithNodes(slot, nodes) ==
  [cached |-> TRUE,
   items |-> nodes \o SelectSeq(slot.items,
                        LAMBDA p : \A k \in 1..Len(nodes) : nodes[k].number # p.number)]

\* the call up to its await, or to its return when the slot is set
GetPrsBegin(c, kind) ==
  /\ qPc[c] = "idle"
  /\ IF Slot(kind).cached
     THEN /\ qLast' = [called |-> TRUE, caller |-> c, kind |-> kind,
                       queried |-> FALSE, outcome |-> "cached",
                       items |-> Slot(kind).items]
          /\ UNCHANGED <<qPc, queries, openPrList, closedPrList>>
     ELSE /\ openPrList' = IF kind = "open" THEN SlotBeforeQuery(openPrList)
                           ELSE openPrList
          /\ closedPrList' = IF kind = "closed" THEN SlotBeforeQuery(closedPrList)
                             ELSE closedPrList
          /\ qPc' = [qPc EXCEPT ![c] = kind]
          /\ queries' = [queries EXCEPT ![kind] =
                           [count |-> @.count + 1, outcome |-> "inflight"]]
          /\ UNCHANGED qLast
  /\ UNCHANGED <<cargoLast, exLast, prefetchedImages, pulls, dkPc, remotePrs,
                 remoteComments, prList, branchPrs, brLast, cmLast, prLast,
                 sessionVars, protVars, mergeVars, statusVars, issueVars>>

\* the call from the answer of its query to its return: the query failed
\* (caught and logged), answered no nodes (a fresh {} is returned), or
\* answered the nodes
GetPrsEnd(c) ==
  /\ qPc[c] \in ListKinds
  /\ \E ok \in BOOLEAN :
       LET kind    == qPc[c]
           nodes   == IF ok THEN Nodes(kind) ELSE <<>>
           outcome == IF ~ok THEN "fail" ELSE IF nodes = <<>> THEN "empty" ELSE "ok"
           slot    == IF outcome = "ok" THEN WithNodes(Slot(kind), nodes)
                      ELSE Slot(kind)
       IN /\ openPrList' = IF kind = "open" THEN slot ELSE openPrList
          /\ closedPrList' = IF kind = "closed" THEN slot ELSE closedPrList
          /\ queries' = [queries EXCEPT ![kind].outcome = outcome]
          /\ qLast' = [called |-> TRUE, caller |-> c, kind |-> kind,
                       queried |-> TRUE, outcome |-> outcome,
                       items |-> IF outcome = "empty" THEN <<>> ELSE slot.items]
  /\ qPc' = [qPc EXCEPT ![c] = "idle"]
  /\ UNCHANGED <<cargoLast, exLast, prefetchedImages, pulls, dkPc, remotePrs,
                 remoteComments, prList, branchPrs, brLast, cmLast, prLast,
                 sessionVars, protVars, mergeVars, statusVars, issueVars>>

\* initRepo's `config = {}`: both lists are gone
InvalidatePrs ==
  /\ \A c \in Callers : qPc[c] = "idle"
  /\ qLast.called
  /\ openPrList' = NoCache
  /\ closedPrList' = NoCache
  /\ queries' = NoQueries
  /\ qLast' = NoQueryCall
  /\ UNCHANGED <<cargoLast, exLast, prefetchedImages, pulls, dkPc, qPc, remotePrs,
                 remoteComments, prList, branchPrs, brLast, cmLast, prLast,
                 sessionVars, protVars, mergeVars, statusVars, issueVars>>

\* open and closed pull requests of the bot, or none at all
QueryInit ==
  /\ remotePrs \in SeqUpTo({p \in OwnPrs : Len(p.title) = 2}, MaxPrs)
  /\ remoteComments = [k \in 1..Len(remotePrs) |-> <<>>]
  /\ prList = NoCache
  /\ openPrList = NoCache
  /\ closedPrList = NoCache
  /\ branchPrs = [b \in Branches |-> NoPr]
  /\ brLast = NoBranchPrCall
  /\ cmLast = NoCommentCall
  /\ prLast = NoPrCall
  /\ qPc = [c \in Callers |-> "idle"]
  /\ queries = NoQueries
  /\ qLast = NoQueryCall

\* ------------------------------------------------------------------------
\* Claims about interleaved getOpenPrs / getClosedPrs (checked under
\* SpecQuery)
\* ------------------------------------------------------------------------
InFlight(kind) == {c \in Callers : qPc[c] = kind}

\* C37: between two invalidations the open-PR query, and likewise the
\* closed-PR query, is issued at most once, the slot being set to an empty
\* map before the query is awaited: a call that interleaves with the query
\* in flight starts no second one; a query that failed or answered no nodes
\* leaves the empty map in the slot; and every call that finds the slot set
\* returns it without a query.
C37_OneQueryPerInvalidation ==
  /\ \A kind \in ListKinds :
       /\ queries[kind].count <= 1
       /\ Cardinality(InFlight(kind)) <= 1
       /\ InFlight(kind) # {} <=> queries[kind].outcome = "inflight"
       /\ queries[kind].count = 1 <=> Slot(kind).cached
       /\ queries[kind].outcome \in {"inflight", "fail", "empty"} =>
            Slot(kind) = [cached |-> TRUE, items |-> <<>>]
       /\ queries[kind].outcome = "ok" => Slot(kind).items = Nodes(kind)
  /\ (qLast.called /\ ~qLast.queried) =>
       /\ qLast.outcome = "cached"
       /\ queries[qLast.kind].count = 1
       /\ queries[qLast.kind].outcome = "inflight" => qLast.items = <<>>
       /\ queries[qLast.kind].outcome # "inflight" =>
            qLast.items = Slot(qLast.kind).items

\* C37 witness: the closed-PR query has failed, the open-PR query is in
\* flight for one caller, and another caller's getOpenPrs has returned the
\* empty map meanwhile without a query
C37_Witness ==
  /\ queries.closed.outcome = "fail"
  /\ queries.open.outcome = "inflight"
  /\ qLast.called /\ qLast.kind = "open" /\ ~qLast.queried
  /\ qLast.caller \notin InFlight("open")
  /\ \E k \in 1..Len(remotePrs) : remotePrs[k].state = "closed"

\* callers of getOpenPrs and getClosedPrs that interleave at the await
InitQuery ==
  SessionInit /\ MethodIdle /\ ProtInit /\ MergeInit /\ StatusInit /\ IssueIdle
    /\ QueryInit /\ cargoLast = NoCargoCall /\ exLast = NoExtractCall
    /\ prefetchedImages = {} /\ pulls = <<>> /\ dkPc = <<>>
NextQuery ==
  \/ \E c \in Callers, kind \in ListKinds : GetPrsBegin(c, kind)
  \/ \E c \in Callers : GetPrsEnd(c)
  \/ InvalidatePrs
SpecQuery == InitQuery /\ [][NextQuery]_vars

\* ------------------------------------------------------------------------
\* prefetchDockerImage / resetPrefetchedImages (lib/util/exec/docker/
\* index.ts:17-32).  A call runs without interruption up to its await of
\* 'docker pull' and again from the end of the pull to its return.
\* ------------------------------------------------------------------------
TaggedImages == {"renovate/rust", "renovate/python:3"}

\* where a caller stands; `stale`: a reset has come since its pull began
DockerIdle ==
  [at |-> "idle", image |-> Null, pulled |-> FALSE, raised |-> FALSE,
   stale |-> FALSE]

\* a set that learns of the image only when the pull has ended
PrefetchedUnrecorded(images, taggedImage) == images

\* prefetchedImages.add(taggedImage), before the pull is awaited
PrefetchedWith(images, taggedImage) == images \cup {taggedImage}

\* prefetchDockerImage(taggedImage) up to its await, or to its return when
\* the image is in the set
PrefetchBegin(c, taggedImage) ==
  /\ dkPc[c].at \in {"idle", "done"}
  /\ IF taggedImage \in prefetchedImages
     THEN /\ dkPc' = [dkPc EXCEPT ![c] =
                        [at |-> "done", image |-> taggedImage, pulled |-> FALSE,
                         raised |-> FALSE, stale |-> FALSE]]
          /\ UNCHANGED <<prefetchedImages, pulls>>
     ELSE /\ prefetchedImages' = PrefetchedWith(prefetchedImages, taggedImage)
          /\ pulls' = Append(pulls, taggedImage)
          /\ dkPc' = [dkPc EXCEPT ![c] =
                        [at |-> "pull", image |-> taggedImage, pulled |-> TRUE,
                         raised |-> FALSE, stale |-> FALSE]]
  /\ UNCHANGED <<cargoLast, exLast, qPc, queries, qLast, sessionVars, protVars,
                 mergeVars, statusVars, issueVars, prVars>>

\* the pull has ended, well or not; a failure raises out of the call and
\* the set is left as it is
PrefetchEnd(c) ==
  /\ dkPc[c].at = "pull"
  /\ \E ok \in BOOLEAN :
       dkPc' = [dkPc EXCEPT ![c] = [@ EXCEPT !.at = "done", !.raised = ~ok]]
  /\ UNCHANGED <<cargoLast, exLast, prefetchedImages, pulls, qPc, queries, qLast,
                 sessionVars, protVars, mergeVars, statusVars, issueVars, prVars>>

\* resetPrefetchedImages(); `pulls` counts from the last reset
ResetPrefetchedImages ==
  /\ prefetchedImages # {}
  /\ prefetchedImages' = {}
  /\ pulls' = <<>>
  /\ dkPc' = [c \in Callers |-> [dkPc[c] EXCEPT !.stale = dkPc[c].pulled]]
  /\ UNCHANGED <<cargoLast, exLast, qPc, queries, qLast, sessionVars,
                 protVars, mergeVars, statusVars, issueVars, prVars>>

DockerInit ==
  /\ prefetchedImages = {}
  /\ pulls = <<>>
  /\ dkPc = [c \in Callers |-> DockerIdle]

\* ------------------------------------------------------------------------
\* Claims about prefetchDockerImage (checked under SpecDocker)
\* ------------------------------------------------------------------------
PullsOf(taggedImage) == Len(SelectSeq(pulls, LAMBDA i : i = taggedImage))

\* C39: between two resetPrefetchedImages calls 'docker pull' is run at most
\* once for a tagged image, however the calls interleave: the image is in
\* the set from before the pull is awaited, so a call that comes while the
\* pull runs, or after it failed, returns without pulling; after a reset no
\* image is in the set and the next call pulls again.
C39_OnePullPerReset ==
  /\ \A i \in TaggedImages :
       /\ PullsOf(i) <= 1
       /\ i \in prefetchedImages <=> PullsOf(i) = 1
  /\ \A c \in Callers :
       /\ dkPc[c].raised => dkPc[c].pulled
       \* a pull since the last reset, running, ended or failed: its image
       \* is in the set, and no other caller has pulled it since
       /\ (dkPc[c].pulled /\ ~dkPc[c].stale) =>
            /\ dkPc[c].image \in prefetchedImages
            /\ \A d \in Callers \ {c} :
                 (dkPc[d].pulled /\ ~dkPc[d].stale) => dkPc[d].image # dkPc[c].image

\* C39 witness: while one caller's pull of an image runs, another caller's
\* call for the same image has returned without pulling
C39_Witness ==
  \E c, d \in Callers :
    /\ dkPc[c].at = "pull" /\ ~dkPc[c].stale
    /\ dkPc[d].at = "done" /\ ~dkPc[d].pulled
    /\ dkPc[d].image = dkPc[c].image
    /\ PullsOf(dkPc[c].image) = 1

\* callers of prefetchDockerImage that interleave, and resets
InitDocker ==
  SessionInit /\ MethodIdle /\ ProtInit /\ MergeInit /\ StatusInit /\ IssueIdle
    /\ PrIdle /\ cargoLast = NoCargoCall /\ exLast = NoExtractCall /\ DockerInit
    /\ QueryIdle
NextDocker ==
  \/ \E c \in Callers, i \in TaggedImages : PrefetchBegin(c, i)
  \/ \E c \in Callers : PrefetchEnd(c)
  \/ ResetPrefetchedImages
SpecDocker == InitDocker /\ [][NextDocker]_vars

\* ------------------------------------------------------------------------
\* extractPackageFile of the setup.cfg manager (src/unnamed/part_000).  A
\* line is the sequence of its words, white space included; the regular
\* expressions are modelled by what they match on such lines.
\* ------------------------------------------------------------------------
White == {" ", "\t"}
CommentMarks == {";", "#"}
SectionNames == {"options", "options.extras_require"}
RecordKeys == {"install_requires", "setup_requires", "tests_require", "dev"}
\* pep440.isValid(currentValue)
ValidVersions == {"==1.0"}

\* the lines of a setup.cfg: section headers, `key =` with and without a
\* dependency, `key=value`, indented dependencies with a valid and with an
\* invalid version, one with a trailing comment, and the empty line
ConfigLines ==
  {<<"[", n, "]">> : n \in SectionNames}
  \cup {<<k, " ", "=">> : k \in RecordKeys}
  \cup {<<"install_requires", " ", "=", " ", "dep", "==1.0">>,
        <<"install_requires", "=", " ", "dep", "==1.0">>,
        <<"\t", "dep", "==1.0">>,
        <<"\t", "dep", "latest">>,
        <<"\t", "dep", "==1.0", " ", "#", "pinned">>,
        <<>>}

\* the index of the first word of the line that is in S, or 0
RECURSIVE FirstIn(_, _, _)
FirstIn(line, S, i) ==
  IF i > Len(line) THEN 0
  ELSE IF line[i] \in S THEN i
  ELSE FirstIn(line, S, i + 1)

\* line.trimRight()
RECURSIVE TrimRight(_)
TrimRight(line) ==
  IF line # <<>> /\ line[Len(line)] \in White
  THEN TrimRight(SubSeq(line, 1, Len(line) - 1))
  ELSE line

\* line.replace(/[;#].*$/, '').trimRight()
StripComment(line) ==
  LET k == FirstIn(line, CommentMarks, 1)
  IN TrimRight(IF k = 0 THEN line ELSE SubSeq(line, 1, k - 1))

\* the line from its first word at or after i that is not white space
RECURSIVE SkipWhite(_, _)
SkipWhite(line, i) ==
  IF i <= Len(line) /\ line[i] \in White THEN SkipWhite(line, i + 1)
  ELSE SubSeq(line, i, Len(line))

NoName == ""

\* getSectionName: /^\[\s*([^\s]+)\s*]\s*$/
GetSectionName(line) ==
  IF line # <<>> /\ line[1] = "["
  THEN LET inner == SkipWhite(line, 2)
       IN IF Len(inner) >= 2 /\ SkipWhite(inner, 2) = <<"]">>
          THEN inner[1] ELSE NoName
  ELSE NoName

\* getSectionRecord: /^([^\s]+)\s+=/
GetSectionRecord(line) ==
  IF Len(line) >= 3 /\ line[1] \notin White /\ line[2] \in White
     /\ SkipWhite(line, 2) # <<>> /\ SkipWhite(line, 2)[1] = "="
  THEN line[1] ELSE NoName

\* rawLine.replace(/^[^=]*=\s*/, '\t')
AfterEquals(line) ==
  LET k == FirstIn(line, {"="}, 1)
  IN IF k = 0 THEN line ELSE <<"\t">> \o SkipWhite(line, k + 1)

\* getDepType
GetDepType(section, record) ==
  IF section = "options" /\ record = "install_requires" THEN "install"
  ELSE IF section = "options" /\ record = "setup_requires" THEN "setup"
  ELSE IF section = "options" /\ record = "tests_require" THEN "test"
  ELSE "extra"

\* what /\s+([-_a-zA-Z0-9]*)(\[.*\])?\s*(.*)/ takes from the line: the name
\* after the first white space and the rest of the line as the value
DepParts(line) ==
  LET k    == FirstIn(line, White, 1)
      rest == IF k = 0 THEN <<>> ELSE SkipWhite(line, k)
      val  == IF rest = <<>> THEN <<>> ELSE SkipWhite(rest, 2)
  IN [matched |-> k # 0,
      depName |-> IF rest = <<>> \/ rest[1] \in CommentMarks \cup {"=", "[", "]"}
                  THEN NoName ELSE rest[1],
      currentValue |-> val]

NoDep == <<>>

\* parseDep(line, section, record): the dependency as a list of at most one
ParseDep(line, section, record) ==
  LET m == DepParts(line)
  IN IF section # NoName /\ record # NoName /\ m.matched /\ m.depName # NoName
        /\ Len(m.currentValue) = 1 /\ m.currentValue[1] \in ValidVersions
     THEN <<[datasource |-> "pypi", depName |-> m.depName,
             currentValue |-> m.currentValue[1],
             depType |-> GetDepType(section, record)]>>
     ELSE NoDep

\* a section header that starts its section without a record key
RecordCleared(record) == NoName

\* the record key after a section header: as it was
RecordKept(record) == record

\* the forEach of extractPackageFile from line i on
RECURSIVE ScanLines(_, _, _, _, _)
ScanLines(lines, i, sectionName, sectionRecord, deps) ==
  IF i > Len(lines) THEN deps
  ELSE LET rawLine == StripComment(lines[i])
           newSectionName == GetSectionName(rawLine)
           newSectionRecord == GetSectionRecord(rawLine)
       IN IF newSectionName # NoName
          THEN ScanLines(lines, i + 1, newSectionName, RecordKept(sectionRecord), deps)
          ELSE LET record == IF newSectionRecord # NoName THEN newSectionRecord
                             ELSE sectionRecord
                   line == IF newSectionRecord # NoName THEN AfterEquals(rawLine)
                           ELSE rawLine
               IN ScanLines(lines, i + 1, sectionName, record,
                            deps \o ParseDep(line, sectionName, record))

\* a result that is {deps} also when deps is empty
PackageFileAlways(deps) == [isNull |-> FALSE, deps |-> deps]

\* deps.length > 0 ? { deps } : null
PackageFileOf(deps) ==
  IF Len(deps) > 0 THEN [isNull |-> FALSE, deps |-> deps] ELSE NullPackageFile

ExtractPackageFileCall(content) ==
  PackageFileOf(ScanLines(content, 1, NoName, NoName, <<>>))

ExtractPackageFile ==
  /\ ~exLast.called
  /\ exLast' = [called |-> TRUE, content |-> exLast.content,
                result |-> ExtractPackageFileCall(exLast.content)]
  /\ UNCHANGED <<cargoLast, prefetchedImages, pulls, dkPc, qPc, queries, qLast,
                 sessionVars, protVars, mergeVars, statusVars, issueVars, prVars>>

\* the content of the call to come
ExtractInit ==
  \E content \in SeqUpTo(ConfigLines, MaxLines) :
    exLast = [NoExtractCall EXCEPT !.content = content]

InitExtract ==
  /\ SessionInit /\ MethodIdle /\ ProtInit /\ MergeInit /\ StatusInit /\ IssueIdle
  /\ PrIdle
  /\ cargoLast = NoCargoCall /\ prefetchedImages = {} /\ pulls = <<>>
  /\ dkPc = [c \in Callers |-> DockerIdle]
  /\ QueryIdle
  /\ ExtractInit

NextExtract == ExtractPackageFile

SpecExtract == InitExtract /\ [][NextExtract]_vars

\* the lines as the forEach sees them
Stripped(content) == [i \in 1..Len(content) |-> StripComment(content[i])]

IsHeader(line) == GetSectionName(line) # NoName
IsKeyLine(line) == ~IsHeader(line) /\ GetSectionRecord(line) # NoName

\* the last line up to i that is a section header, a `key =` line; 0 if none
LastHeader(lines, i) ==
  LET S == {j \in 1..i : IsHeader(lines[j])}
  IN IF S = {} THEN 0 ELSE CHOOSE j \in S : \A k \in S : k <= j
LastKeyLine(lines, i) ==
  LET S == {j \in 1..i : IsKeyLine(lines[j])}
  IN IF S = {} THEN 0 ELSE CHOOSE j \in S : \A k \in S : k <= j

\* the text of line i in which a dependency is looked for
DepText(lines, i) ==
  IF IsKeyLine(lines[i]) THEN AfterEquals(lines[i]) ELSE lines[i]

WellFormedDep(line) ==
  LET m == DepParts(line)
  IN m.matched /\ m.depName # NoName /\ Len(m.currentValue) = 1
     /\ m.currentValue[1] \in ValidVersions

\* line i gives a dependency: it is no header, a section and a record key
\* have been seen by then, and its text is a dependency with a valid version
Emits(lines, i) ==
  /\ ~IsHeader(lines[i])
  /\ LastHeader(lines, i) # 0
  /\ LastKeyLine(lines, i) # 0
  /\ WellFormedDep(DepText(lines, i))

ExpectedDepType(lines, i) ==
  LET section == GetSectionName(lines[LastHeader(lines, i)])
      record  == GetSectionRecord(lines[LastKeyLine(lines, i)])
  IN CASE section = "options" /\ record = "install_requires" -> "install"
       [] section = "options" /\ record = "setup_requires" -> "setup"
       [] section = "options" /\ record = "tests_require" -> "test"
       [] OTHER -> "extra"

ExpectedDeps(lines) ==
  LET Emitting(i) == Emits(lines, i)
      at == SelectSeq([i \in 1..Len(lines) |-> i], Emitting)
  IN [k \in 1..Len(at) |->
        [datasource |-> "pypi",
         depName |-> DepParts(DepText(lines, at[k])).depName,
         currentValue |-> DepParts(DepText(lines, at[k])).currentValue[1],
         depType |-> ExpectedDepType(lines, at[k])]]

\* C40: extractPackageFile gives one dependency for each line that is no
\* section header, comes after some section header and some `key =` line
\* (the line itself counts as the `key =` line), and holds a dependency; the
\* section is that of the last header before the line, the record key that
\* of the last `key =` line up to it, whether or not a header came in
\* between; depType is install, setup or test for install_requires,
\* setup_requires, tests_require under `options` and extra otherwise; the
\* result is null exactly when there is no such line, never an empty list.
C40_SectionAndRecordScan ==
  exLast.called =>
    LET lines == Stripped(exLast.content)
        deps  == ExpectedDeps(lines)
    IN /\ exLast.result.isNull <=> deps = <<>>
       /\ exLast.result.deps = deps
       /\ ~exLast.result.isNull => exLast.result.deps # <<>>

\* a call whose record key was set before the section header and which gave
\* a dependency from a line after that header
C40_Witness ==
  /\ exLast.called
  /\ ~exLast.result.isNull
  /\ LET lines == Stripped(exLast.content)
     IN \E i \in 1..Len(lines) :
          /\ Emits(lines, i)
          /\ LastKeyLine(lines, i) # 0
          /\ LastKeyLine(lines, i) < LastHeader(lines, i)
          /\ exLast.result.deps[1].depType = "install"

====
